---- MODULE Spec2Model ----
(***************************************************************************)
(* Model of the team balancer of trueskill-tracker.py (class TeamBalancer).*)
(*                                                                         *)
(* A player is the dict the bot builds for a channel member, kept as a     *)
(* record [user_id, region, mu, sigma].  A team is a sequence of players   *)
(* and a partition a sequence of teams, as in the code.                    *)
(*                                                                         *)
(* Ratings are integers here and the variance is computed exactly, as a    *)
(* fraction [num, den]; float('inf') is the fraction 1/0.  The rounding of *)
(* the code's floats is not modelled.                                      *)
(* random.shuffle is a nondeterministic choice of a permutation.           *)
(***************************************************************************)
EXTENDS Integers, Sequences, FiniteSets

(* ------------------------------ bounds -------------------------------- *)
\* Rosters of Spec are the sub-rosters of a pool of MaxPlayers members.
MaxPlayers == 5
\* Largest team count a direct call of a generate_* function is given.
MaxTeams == 3
\* The attempt loops of the optimizers are explored up to this many attempts.
MaxAttempts == 2
\* Number of rating profiles the pool is drawn from.
NumProfiles == 3

(* ------------------------- program constants -------------------------- *)
TeamCap == 4
TeamLimit == 5
AttemptsSmallRoster == 1000
AttemptsLargeRoster == 500
DefaultMaxIterations == 10000
LocalIterationsSmall == 200
LocalIterationsLarge == 100
RegionAttemptsCeiling == 500
RegionAttemptsSmall == 200
RegionAttemptsLarge == 100
RegionLocalIterationsSmall == 150
RegionLocalIterationsLarge == 75
\* lcm of the team sizes 1..TeamCap: averages are kept as integers * AvgScale
AvgScale == 12

Min(a, b) == IF a < b THEN a ELSE b
Max(a, b) == IF a > b THEN a ELSE b

(* ------------------------------ players ------------------------------- *)
\* str.lower() on the region strings that occur
Lower(s) ==
    CASE s = "NA" -> "na"
      [] s = "Na" -> "na"
      [] s = "EU" -> "eu"
      [] s = "Unknown" -> "unknown"
      [] s = "Atlantis" -> "atlantis"
      [] OTHER -> s

RegionCycle == <<"NA", "eu", "na", "Unknown", "EU">>
RegionOf(i) == RegionCycle[((i - 1) % Len(RegionCycle)) + 1]

\* Rating profiles of the pool: 1 = every member at the same rating,
\* 2 = distinct positive skills with ties, 3 = skills of both signs.
MuOf(p, i) ==
    CASE p = 1 -> 25
      [] p = 2 -> 20 + 3 * i
      [] OTHER -> (i * i) % (p + 4)

SigmaOf(p, i) ==
    CASE p = 1 -> 8
      [] p = 2 -> i % 3
      [] OTHER -> i % 2

PlayerOf(p, i) ==
    [user_id |-> i, region |-> RegionOf(i), mu |-> MuOf(p, i), sigma |-> SigmaOf(p, i)]

RECURSIVE RosterOf(_, _, _, _)
\* the members of S with ids i..n, in ascending id order
RosterOf(S, p, i, n) ==
    IF i > n THEN <<>>
    ELSE (IF i \in S THEN <<PlayerOf(p, i)>> ELSE <<>>) \o RosterOf(S, p, i + 1, n)

Rosters ==
    {RosterOf(S, p, 1, MaxPlayers) : S \in SUBSET (1..MaxPlayers), p \in 1..NumProfiles}

RequiredRegions == {"na", "EU", "unknown", "Atlantis"}

(* --------------------------- SkillModel ------------------------------- *)
get_player_skill(player) == player.mu - 3 * player.sigma

RECURSIVE SumSkill(_, _)
\* sum(get_player_skill(p) for p in team[:n])
SumSkill(team, n) ==
    IF n = 0 THEN 0 ELSE get_player_skill(team[n]) + SumSkill(team, n - 1)

\* the team's average skill times AvgScale; 0 for an empty team
calculate_team_average(team) ==
    IF Len(team) = 0 THEN 0 ELSE (SumSkill(team, Len(team)) * AvgScale) \div Len(team)

Inf == [num |-> 1, den |-> 0]
\* a < b on fractions with den >= 0
Less(a, b) == a.num * b.den < b.num * a.den
LessEq(a, b) == ~Less(b, a)

RECURSIVE AverageSums(_, _)
\* the sum and the sum of squares of the averages of teams[:n]
AverageSums(teams, n) ==
    IF n = 0 THEN [sum |-> 0, squares |-> 0]
    ELSE LET avg == calculate_team_average(teams[n])
             r == AverageSums(teams, n - 1)
         IN [sum |-> r.sum + avg, squares |-> r.squares + avg * avg]

\* population variance of the team averages, times AvgScale^2:
\* (k * sum(a^2) - sum(a)^2) / k^2
calculate_variance(teams) ==
    IF Len(teams) = 0 THEN Inf
    ELSE LET r == AverageSums(teams, Len(teams))
         IN [num |-> Len(teams) * r.squares - r.sum * r.sum,
             den |-> Len(teams) * Len(teams)]

RECURSIVE InsertDesc(_, _)
\* insert p after every element whose skill is >= its own (stable)
InsertDesc(sorted, p) ==
    IF Len(sorted) = 0 THEN <<p>>
    ELSE IF get_player_skill(Head(sorted)) >= get_player_skill(p)
         THEN <<Head(sorted)>> \o InsertDesc(Tail(sorted), p)
         ELSE <<p>> \o sorted

RECURSIVE SortDesc(_)
\* sorted(players, key=get_player_skill, reverse=True)
SortDesc(players) ==
    IF Len(players) = 0 THEN <<>>
    ELSE InsertDesc(SortDesc(SubSeq(players, 1, Len(players) - 1)), players[Len(players)])

(* ----------------------------- shuffles ------------------------------ *)
\* Calls on more than MaxPlayers players are explored under the shuffle
\* outcomes that move at most MaxDisplaced elements per attempt; calls on
\* fewer players under every outcome.
MaxDisplaced == 2

RemoveAt(s, i) == SubSeq(s, 1, i - 1) \o SubSeq(s, i + 1, Len(s))

RECURSIVE Perms(_)
\* every ordering of the sequence s
Perms(s) ==
    IF Len(s) = 0 THEN {<<>>}
    ELSE UNION {{<<s[i]>> \o r : r \in Perms(RemoveAt(s, i))} : i \in 1..Len(s)}

RECURSIVE Positions(_, _, _)
\* the increasing sequences of at most b positions among lo..n
Positions(lo, n, b) ==
    IF b = 0 \/ lo > n THEN {<<>>}
    ELSE Positions(lo + 1, n, b)
         \cup {<<lo>> \o r : r \in Positions(lo + 1, n, b - 1)}

RECURSIVE Rearranged(_, _, _, _)
\* s with the elements at the positions T rearranged in the order q, from
\* position i on
Rearranged(s, T, q, i) ==
    IF i > Len(s) THEN <<>>
    ELSE <<IF \E m \in 1..Len(T) : T[m] = i
           THEN s[q[CHOOSE m \in 1..Len(T) : T[m] = i]]
           ELSE s[i]>> \o Rearranged(s, T, q, i + 1)

Displaced(s, t) == Cardinality({i \in 1..Len(s) : s[i] /= t[i]})

\* the outcomes of random.shuffle(s) that move at most b elements
Shuffles(s, b) ==
    IF b >= Len(s) THEN Perms(s)
    ELSE UNION {{Rearranged(s, T, q, 1) : q \in Perms(T)} : T \in Positions(1, Len(s), b)}

\* the elements the shuffles of one attempt on n players may move
ShuffleBudget(n) == IF n <= MaxPlayers THEN 2 * n ELSE MaxDisplaced

RECURSIVE TierShuffles(_, _, _)
\* for i in range(0, len(list), tier_size): shuffle list[i:i + tier_size]
TierShuffles(list, tier_size, b) ==
    IF Len(list) = 0 THEN {<<>>}
    ELSE LET n == Min(tier_size, Len(list))
             tier == SubSeq(list, 1, n)
             rest == SubSeq(list, n + 1, Len(list))
         IN UNION {{t \o r : r \in TierShuffles(rest, tier_size, b - Displaced(tier, t))}
                   : t \in Shuffles(tier, b)}

(* ------------------------------ drafts -------------------------------- *)
RECURSIVE EmptyTeams(_)
\* [[] for _ in range(num_teams)]
EmptyTeams(num_teams) ==
    IF num_teams = 0 THEN <<>> ELSE Append(EmptyTeams(num_teams - 1), <<>>)

\* Place with the cap one too low
PlaceCapThree(teams, team_idx, player) ==
    IF Len(teams[team_idx + 1]) < TeamCap - 1
    THEN [teams EXCEPT ![team_idx + 1] = Append(@, player)]
    ELSE teams

\* Place without the cap
PlaceUncapped(teams, team_idx, player) ==
    [teams EXCEPT ![team_idx + 1] = Append(@, player)]

\* if len(teams[team_idx]) < 4: teams[team_idx].append(player)
Place(teams, team_idx, player) ==
    IF Len(teams[team_idx + 1]) < TeamCap
    THEN [teams EXCEPT ![team_idx + 1] = Append(@, player)]
    ELSE teams

\* DraftIndex without the reversed rounds
DraftIndexRoundRobin(i, num_teams, snake) == i % num_teams

\* DraftIndex with i // num_teams for i % num_teams
DraftIndexByRound(i, num_teams, snake) == (i \div num_teams) % num_teams

\* the team the i-th player (from 0) is offered to
DraftIndex(i, num_teams, snake) ==
    IF snake /\ (i \div num_teams) % 2 = 1
    THEN num_teams - 1 - (i % num_teams)
    ELSE i % num_teams

RECURSIVE Draft(_, _, _, _)
\* for i, player in enumerate(player_list): offer player to its team
Draft(player_list, i, teams, snake) ==
    IF i >= Len(player_list) THEN teams
    ELSE Draft(player_list, i + 1,
               Place(teams, DraftIndex(i, Len(teams), snake), player_list[i + 1]), snake)

\* for i in range(min(num_teams, len(region_list))): teams[i].append(region_list[i])
RECURSIVE SeedRegion(_, _)
SeedRegion(region_list, num_teams) ==
    IF num_teams = 0 THEN <<>>
    ELSE Append(SeedRegion(region_list, num_teams - 1),
                IF num_teams <= Len(region_list) THEN <<region_list[num_teams]>> ELSE <<>>)

\* DropFirst dropping nothing: the seeded players stay in the pool
DropNone(list, k) == list

\* region_list[num_teams:]
DropFirst(list, k) == SubSeq(list, k + 1, Len(list))

RECURSIVE NonEmptyFrom(_, _)
NonEmptyFrom(teams, i) ==
    IF i > Len(teams) THEN <<>>
    ELSE (IF Len(teams[i]) > 0 THEN <<teams[i]>> ELSE <<>>) \o NonEmptyFrom(teams, i + 1)

\* [team for team in teams if team]
NonEmptyTeams(teams) == NonEmptyFrom(teams, 1)

(* --------------------------- local search ----------------------------- *)
\* teams[i][p1], teams[j][p2] = teams[j][p2], teams[i][p1]
Swap(teams, i, p1, j, p2) ==
    [teams EXCEPT ![i] = [@ EXCEPT ![p1] = teams[j][p2]],
                  ![j] = [@ EXCEPT ![p2] = teams[i][p1]]]

\* TrySwap with <= for <: a tie keeps the swap
TrySwapOnTies(st, i, p1, j, p2) ==
    IF LessEq(calculate_variance(Swap(st.teams, i, p1, j, p2)), st.variance)
    THEN [teams |-> Swap(st.teams, i, p1, j, p2),
          variance |-> calculate_variance(Swap(st.teams, i, p1, j, p2)),
          improved |-> TRUE]
    ELSE st

\* TrySwap without the revert
TrySwapNoRevert(st, i, p1, j, p2) ==
    IF Less(calculate_variance(Swap(st.teams, i, p1, j, p2)), st.variance)
    THEN [teams |-> Swap(st.teams, i, p1, j, p2),
          variance |-> calculate_variance(Swap(st.teams, i, p1, j, p2)),
          improved |-> TRUE]
    ELSE [st EXCEPT !.teams = Swap(st.teams, i, p1, j, p2)]

\* TrySwap with the comparison turned round
TrySwapKeepsWorse(st, i, p1, j, p2) ==
    IF Less(st.variance, calculate_variance(Swap(st.teams, i, p1, j, p2)))
    THEN [teams |-> Swap(st.teams, i, p1, j, p2),
          variance |-> calculate_variance(Swap(st.teams, i, p1, j, p2)),
          improved |-> TRUE]
    ELSE st

\* A trial swap: kept if it lowers the variance, reverted otherwise.
\* st is [teams, variance (current_variance), improved].
TrySwap(st, i, p1, j, p2) ==
    LET swapped == Swap(st.teams, i, p1, j, p2)
        new_variance == calculate_variance(swapped)
    IN IF Less(new_variance, st.variance)
       THEN [teams |-> swapped, variance |-> new_variance, improved |-> TRUE]
       ELSE st

RECURSIVE TryMembers(_, _, _, _, _)
\* The loops over p1 and p2 for the teams i and j: the c-th trial swaps
\* the indices first + c // lj and first + c % lj.  first is the lowest index a
\* swap may touch: 1, or 2 when index 0 of the code holds the region seed.
TryMembers(st, i, j, c, first) ==
    LET li == Len(st.teams[i]) - first + 1
        lj == Len(st.teams[j]) - first + 1
    IN IF li <= 0 \/ lj <= 0 \/ c >= li * lj THEN st
       ELSE TryMembers(TrySwap(st, i, first + (c \div lj), j, first + (c % lj)),
                       i, j, c + 1, first)

RECURSIVE TryTeams(_, _, _, _)
\* for i in range(num_teams): for j in range(i + 1, num_teams)
TryTeams(st, i, j, first) ==
    IF i > Len(st.teams) THEN st
    ELSE IF j > Len(st.teams) THEN TryTeams(st, i + 1, i + 2, first)
    ELSE TryTeams(TryMembers(st, i, j, 0, first), i, j + 1, first)

\* one full pass of the swap loops
RunPass(teams, first) ==
    TryTeams([teams |-> teams, variance |-> calculate_variance(teams), improved |-> FALSE],
             1, 2, first)

RECURSIVE LocalSearchRun(_, _, _, _, _)
\* while improved and iterations < max_local_iterations: one more pass;
\* gives the partition, the flag and the pass counter the loop ends with
LocalSearchRun(teams, improved, iterations, max_local_iterations, first) ==
    IF improved /\ iterations < max_local_iterations
    THEN LET r == RunPass(teams, first)
         IN LocalSearchRun(r.teams, r.improved, iterations + 1, max_local_iterations,
                           first)
    ELSE [teams |-> teams, improved |-> improved, iterations |-> iterations]

\* the partition the pass loop ends with
LocalSearch(teams, improved, iterations, max_local_iterations, first) ==
    LocalSearchRun(teams, improved, iterations, max_local_iterations, first).teams

RECURSIVE MemberTrialsShort(_, _, _, _, _)
\* MemberTrials leaving out the last member of team j
MemberTrialsShort(teams, i, j, c, first) ==
    LET li == Len(teams[i]) - first + 1
        lj == Len(teams[j]) - first
    IN IF li <= 0 \/ lj <= 0 \/ c >= li * lj THEN <<>>
       ELSE <<[i |-> i, p1 |-> first + (c \div lj), j |-> j, p2 |-> first + (c % lj)]>>
            \o MemberTrialsShort(teams, i, j, c + 1, first)

RECURSIVE MemberTrialsFromZero(_, _, _, _, _)
\* MemberTrials over every member, the one at index 0 of the code included
MemberTrialsFromZero(teams, i, j, c, first) ==
    LET li == Len(teams[i])
        lj == Len(teams[j])
    IN IF li <= 0 \/ lj <= 0 \/ c >= li * lj THEN <<>>
       ELSE <<[i |-> i, p1 |-> 1 + (c \div lj), j |-> j, p2 |-> 1 + (c % lj)]>>
            \o MemberTrialsFromZero(teams, i, j, c + 1, first)

RECURSIVE MemberTrials(_, _, _, _, _)
\* the index pairs the loops over p1_idx and p2_idx try for the teams i and j,
\* from the c-th on, 1-based, in the order of the loops
MemberTrials(teams, i, j, c, first) ==
    LET li == Len(teams[i]) - first + 1
        lj == Len(teams[j]) - first + 1
    IN IF li <= 0 \/ lj <= 0 \/ c >= li * lj THEN <<>>
       ELSE <<[i |-> i, p1 |-> first + (c \div lj), j |-> j, p2 |-> first + (c % lj)]>>
            \o MemberTrials(teams, i, j, c + 1, first)

RECURSIVE Trials(_, _, _, _)
\* the trial swaps of one full pass over the partition teams, in order
Trials(teams, i, j, first) ==
    IF i > Len(teams) THEN <<>>
    ELSE IF j > Len(teams) THEN Trials(teams, i + 1, i + 2, first)
    ELSE MemberTrials(teams, i, j, 0, first) \o Trials(teams, i, j + 1, first)

(* ----------------------------- planner ------------------------------- *)
\* calculate_optimal_teams with < for <=
CalculateStrictThresholds(n) ==
    IF n < 3 THEN 1
    ELSE IF n < 8 THEN 2
    ELSE IF n < 12 THEN 3
    ELSE IF n < 16 THEN 4
    ELSE 5

\* calculate_optimal_teams as ceil(n / 4), without the limit of 5 teams
CalculateUnlimited(n) == IF n <= 3 THEN 1 ELSE (n + TeamCap - 1) \div TeamCap

calculate_optimal_teams(n) ==
    IF n <= 3 THEN 1
    ELSE IF n <= 8 THEN 2
    ELSE IF n <= 12 THEN 3
    ELSE IF n <= 16 THEN 4
    ELSE 5

\* FloorOfTwo with the loop left out
FloorOfTwoSkipped(n, final_teams) == final_teams

RECURSIVE FloorOfTwo(_, _)
\* while final_teams > 1 and (total_players // final_teams) < 2: final_teams -= 1
FloorOfTwo(n, final_teams) ==
    IF final_teams > 1 /\ (n \div final_teams) < 2
    THEN FloorOfTwo(n, final_teams - 1)
    ELSE final_teams

RECURSIVE AvoidExceedingThree(_, _)
\* AvoidExceedingCap adding teams as soon as a team would exceed 3 players
AvoidExceedingThree(n, final_teams) ==
    IF final_teams < TeamLimit /\ n > (TeamCap - 1) * final_teams
    THEN AvoidExceedingThree(n, final_teams + 1)
    ELSE final_teams

RECURSIVE AvoidExceedingCap(_, _)
\* while final_teams < 5 and (total_players / final_teams) > 4: final_teams += 1
AvoidExceedingCap(n, final_teams) ==
    IF final_teams < TeamLimit /\ n > TeamCap * final_teams
    THEN AvoidExceedingCap(n, final_teams + 1)
    ELSE final_teams

\* BalanceTeamCount as the num_teams argument of balance_teams, by default 2
BalanceTeamCountAsAsked(n) == 2

\* the team count balance_teams hands to the generator (total_players >= 2)
BalanceTeamCount(n) ==
    AvoidExceedingCap(n, FloorOfTwo(n, Min(TeamLimit, calculate_optimal_teams(n))))

\* the bucketing balance_teams_with_region does itself (total_players >= 2)
RegionOptimalTeams(n, max_possible_teams) ==
    IF n <= 4 THEN (IF n >= 2 THEN Min(2, max_possible_teams) ELSE 1)
    ELSE IF n <= 8 THEN Min(2, max_possible_teams)
    ELSE IF n <= 12 THEN Min(3, max_possible_teams)
    ELSE IF n <= 16 THEN Min(4, max_possible_teams)
    ELSE Min(5, max_possible_teams)

\* RegionTeamCount without the limit by the number of region players
RegionTeamCountUncapped(n, r) == FloorOfTwo(n, calculate_optimal_teams(n))

\* the team count balance_teams_with_region hands to the generator,
\* for n players of which r >= 1 are region players
RegionTeamCount(n, r) ==
    FloorOfTwo(n, Min(RegionOptimalTeams(n, Min(r, TeamLimit)), r))

(* ----------------------- random mode, by outcome ---------------------- *)
RECURSIVE Identity(_)
\* <<1, ..., n>>
Identity(n) == IF n = 0 THEN <<>> ELSE Append(Identity(n - 1), n)

RECURSIVE Permuted(_, _, _)
\* random.shuffle(s) under the outcome perm, from position i on: the element at
\* position i of the shuffled list is the one that was at position perm[i]
Permuted(s, perm, i) ==
    IF i > Len(perm) THEN <<>> ELSE <<s[perm[i]]>> \o Permuted(s, perm, i + 1)

\* RandomTeamsBy drafting the shuffled players in descending order of skill
RandomTeamsBySkill(list, k, perm) ==
    IF Len(list) < 2 \/ k < 1 THEN <<>>
    ELSE NonEmptyTeams(Draft(SortDesc(Permuted(list, perm, 1)), 0, EmptyTeams(k), FALSE))

\* generate_random_teams(list, k) when random.shuffle gives the outcome perm
RandomTeamsBy(list, k, perm) ==
    IF Len(list) < 2 \/ k < 1 THEN <<>>
    ELSE NonEmptyTeams(Draft(Permuted(list, perm, 1), 0, EmptyTeams(k), FALSE))

\* balance_teams(list, use_randomization=True) when random.shuffle gives perm
RandomBalanceBy(list, perm) ==
    IF Len(list) < 2 \/ BalanceTeamCount(Len(list)) < 1 THEN <<>>
    ELSE RandomTeamsBy(list, BalanceTeamCount(Len(list)), perm)

RECURSIVE Rerated(_, _, _)
\* the players of roster[:n], each with the rating profile q gives its user_id
Rerated(roster, q, n) ==
    IF n = 0 THEN <<>>
    ELSE Append(Rerated(roster, q, n - 1),
                [roster[n] EXCEPT !.mu = MuOf(q, roster[n].user_id),
                                  !.sigma = SigmaOf(q, roster[n].user_id)])

(* ------------------------------ database ------------------------------ *)
\* The database calls are explored up to this many calls.
MaxOps == 3
\* The commands of the bot are explored up to this many commands.
MaxCommands == 2
\* The repeated team result commands are explored up to this many commands.
MaxRepeats == 5

\* create_teams balances the first 20 members of the waiting room
RoomLimit == 20

\* the defaults of insert_or_update_player; 8.333 is kept as the integer 8
DefaultMu == 25
DefaultSigma == 8

\* the argument region=None
NoRegion == "None"

\* trueskill.Rating(mu, sigma)
Rating(mu, sigma) == [mu |-> mu, sigma |-> sigma]

\* The rating trueskill.rate returns for a player of the given rating whose
\* game against an opponent ended with the given outcome ("win", "loss" or
\* "draw").  The library is not part of the repository: this stand-in moves
\* mu with the outcome and with the sign of the difference to the opponent,
\* and narrows sigma.
RateAgainst(rating, opponent, kind) ==
    Rating(rating.mu
               + (CASE kind = "win" -> 2 [] kind = "loss" -> -2 [] OTHER -> 0)
               + (IF opponent.mu > rating.mu THEN 1
                  ELSE IF opponent.mu < rating.mu THEN -1 ELSE 0),
           Max(1, rating.sigma - 1))

\* The rating trueskill.rate returns for a participant of record_game_result;
\* the other participants are taken to have the participant's rating.
Rate(rating, kind) == RateAgainst(rating, rating, kind)

\* a new row of the players table (the two timestamps are left out)
PlayerRow(username, region, mu, sigma) ==
    [username |-> username, region |-> region, mu |-> mu, sigma |-> sigma,
     games_played |-> 0, wins |-> 0, losses |-> 0, draws |-> 0]

\* get_player(user_id) on a table that has the row; None is the row's absence
get_player(rows, user_id) ==
    [user_id |-> user_id, username |-> rows[user_id].username,
     region |-> rows[user_id].region, mu |-> rows[user_id].mu,
     sigma |-> rows[user_id].sigma, games_played |-> rows[user_id].games_played,
     wins |-> rows[user_id].wins, losses |-> rows[user_id].losses,
     draws |-> rows[user_id].draws]

\* the players table after the statement of insert_or_update_player
insert_or_update_player(rows, user_id, username, region, mu, sigma) ==
    IF user_id \in DOMAIN rows
    THEN [rows EXCEPT ![user_id] =
             [username |-> username,
              region |-> IF region = NoRegion THEN rows[user_id].region ELSE region,
              mu |-> mu, sigma |-> sigma,
              games_played |-> rows[user_id].games_played,
              wins |-> rows[user_id].wins, losses |-> rows[user_id].losses,
              draws |-> rows[user_id].draws]]
    ELSE [x \in DOMAIN rows \cup {user_id} |->
             IF x = user_id
             THEN PlayerRow(username,
                            IF region = NoRegion THEN "Unknown" ELSE region,
                            mu, sigma)
             ELSE rows[x]]

\* the result strings for which update_player_stats executes a statement
StatResults == {"win", "loss", "draw"}

\* update_player_stats that counts a game for every result string
UpdatePlayerStatsAnyResult(rows, user_id, new_rating, kind) ==
    IF user_id \notin DOMAIN rows THEN rows
    ELSE [rows EXCEPT ![user_id] =
             [username |-> rows[user_id].username, region |-> rows[user_id].region,
              mu |-> new_rating.mu, sigma |-> new_rating.sigma,
              games_played |-> rows[user_id].games_played + 1,
              wins |-> rows[user_id].wins + (IF kind = "win" THEN 1 ELSE 0),
              losses |-> rows[user_id].losses + (IF kind = "loss" THEN 1 ELSE 0),
              draws |-> rows[user_id].draws + (IF kind = "draw" THEN 1 ELSE 0)]]

\* the players table after the statement of update_player_stats, if any
update_player_stats(rows, user_id, new_rating, kind) ==
    IF user_id \notin DOMAIN rows \/ kind \notin StatResults THEN rows
    ELSE [rows EXCEPT ![user_id] =
             [username |-> rows[user_id].username, region |-> rows[user_id].region,
              mu |-> new_rating.mu, sigma |-> new_rating.sigma,
              games_played |-> rows[user_id].games_played + 1,
              wins |-> rows[user_id].wins + (IF kind = "win" THEN 1 ELSE 0),
              losses |-> rows[user_id].losses + (IF kind = "loss" THEN 1 ELSE 0),
              draws |-> rows[user_id].draws + (IF kind = "draw" THEN 1 ELSE 0)]]

RECURSIVE AutoCreated(_, _)
\* the players table after record_game_result has auto-created the players
\* of ids (a sequence of user ids) that have no row
AutoCreated(rows, ids) ==
    IF ids = <<>> THEN rows
    ELSE AutoCreated(IF Head(ids) \in DOMAIN rows THEN rows
                     ELSE insert_or_update_player(rows, Head(ids), "Player",
                                                  NoRegion, DefaultMu, DefaultSigma),
                     Tail(ids))

RECURSIVE PlayerDicts(_, _)
\* [get_player(user_id) for user_id in ids]
PlayerDicts(rows, ids) ==
    IF ids = <<>> THEN <<>>
    ELSE <<get_player(rows, Head(ids))>> \o PlayerDicts(rows, Tail(ids))

RECURSIVE Concat(_)
\* the teams of a list of teams, one after the other
Concat(lists) == IF lists = <<>> THEN <<>> ELSE Head(lists) \o Concat(Tail(lists))

RECURSIVE TeamPlayers(_, _)
\* team_players of record_game_result: one list of player dicts per team
TeamPlayers(rows, id_teams) ==
    IF id_teams = <<>> THEN <<>>
    ELSE <<PlayerDicts(rows, Head(id_teams))>> \o TeamPlayers(rows, Tail(id_teams))

\* the outcome of a team in record_game_result
GameOutcome(team, winning_team_index) ==
    IF winning_team_index = -1 THEN "draw"
    ELSE IF team = winning_team_index THEN "win" ELSE "loss"

(* ------------------------------- state -------------------------------- *)
VARIABLES
    players,          \* the roster the entry point is called with
    pc,               \* "idle", "optimizing", "region_optimizing", "done",
                      \* "planned"; step by step: "drafting", "searching",
                      \* "swapping", "searched"
    entry,            \* the entry point called and its arguments
    num_teams,        \* team count of the running generator
    use_randomization,
    region_players,
    other_players,
    attempts,         \* length of the attempt loop
    attempt,          \* attempts completed so far
    best_teams,       \* None is <<>>
    best_variance,
    first_variance,   \* history: final_variance of attempt 0
    prev_best_variance, \* history: best_variance before the last attempt
    result,           \* the returned partition
    total_players,    \* planner calls: the argument
    region_count,     \* planner calls: len(region_players)
    final_teams,      \* planner calls: the team count computed
    teams,            \* the working partition of an attempt run step by step
    improved,         \* the flag of the pass loop
    iterations,       \* the pass counter of the pass loop
    max_local_iterations,
    variances,        \* history: the final variance of each attempt
    stored_at,        \* history: the attempt that last changed best_teams
    stored_own,       \* history: that attempt stored its own final partition
    player_list,      \* the ordering the attempt drafts from
    drafted,          \* players of player_list offered to a team so far
    team_idx,         \* history: the team the last player was offered to
    first,            \* lowest index a swap may touch (1-based)
    current_variance,
    trial,            \* trial swaps done in the running pass
    last_trial,       \* history: the last trial swap, NoTrial before any
    before_teams,     \* history: the partition before the last trial swap
    before_variance,  \* history: current_variance before the last trial swap
    initial_variance, \* history: the variance of the drafted partition
    seeded,           \* history: the teams after the region seeding
    twin_players,     \* twin calls: the roster with other ratings
    twin_result,      \* twin calls: the partition returned for twin_players
    shuffle_outcome,  \* twin calls: the outcome of random.shuffle in both calls
    db,               \* the committed players table: user_id -> row
    games,            \* the number of committed rows of the games table
    game_players,     \* the committed rows of the game_players table
    lock,             \* the holder of the write lock of the database file
    txn,              \* the uncommitted tables of the connection holding the lock
    call,             \* the running record_game_result and its position
    outcome,          \* how the last database call ended
    ops,              \* database calls made so far
    last_op,          \* history: the last database call and its arguments
    before_db,        \* history: the players table before the last call
    current_teams,    \* bot.current_teams: guild -> the stored partition
    command,          \* the running !ts teams and its arguments
    commands,         \* commands invoked so far
    last_cmd,         \* history: the last command invoked and how it ended
    before_stored,    \* history: bot.current_teams before the last command
    streak            \* history: the repetitions of one team result command

\* what an attempt leaves behind
attemptVars == <<teams, improved, iterations, max_local_iterations, variances,
                 stored_at, stored_own>>
\* the position inside an attempt that is run step by step
stepVars == <<player_list, drafted, team_idx, first, current_variance, trial,
              last_trial, before_teams, before_variance, initial_variance, seeded>>

\* the second call of a pair of calls that differ in the ratings only
twinVars == <<twin_players, twin_result, shuffle_outcome>>
\* the database
dbVars == <<db, games, game_players, lock, txn, call, outcome, ops, last_op,
            before_db>>
\* the database but for the players table
dbRest == <<games, game_players, lock, txn, call, outcome, ops, last_op>>
\* the bot
botVars == <<current_teams, command, commands, last_cmd, before_stored, streak>>
\* the database and the bot
restVars == <<dbVars, botVars>>
\* what no call of the balancer touches
otherVars == <<twinVars, restVars>>

vars == <<players, pc, entry, num_teams, use_randomization, region_players,
          other_players, attempts, attempt, best_teams, best_variance,
          first_variance, prev_best_variance, result, total_players, region_count,
          final_teams, attemptVars, stepVars, otherVars>>

plannerVars == <<total_players, region_count, final_teams>>
loopVars == <<num_teams, use_randomization, region_players, other_players,
              attempts, attempt, best_teams, best_variance, first_variance,
              prev_best_variance>>
\* what no call of the database touches
balancerVars == <<players, pc, entry, result, loopVars, plannerVars, attemptVars,
                  stepVars, twinVars>>

Entry(fn, k, rand, region, max_iterations) ==
    [fn |-> fn, num_teams |-> k, use_randomization |-> rand,
     required_region |-> region, max_iterations |-> max_iterations]

NoEntry == Entry("none", 0, FALSE, "", 0)

NoTrial == [i |-> 0, p1 |-> 0, j |-> 0, p2 |-> 0]

\* no attempt has run
NoAttempt ==
    /\ teams = <<>>
    /\ improved = FALSE
    /\ iterations = 0
    /\ max_local_iterations = 0
    /\ variances = <<>>
    /\ stored_at = -1
    /\ stored_own = TRUE
    /\ player_list = <<>>
    /\ drafted = 0
    /\ team_idx = -1
    /\ first = 1
    /\ current_variance = Inf
    /\ trial = 0
    /\ last_trial = NoTrial
    /\ before_teams = <<>>
    /\ before_variance = Inf
    /\ initial_variance = Inf
    /\ seeded = <<>>

\* no twin call
NoTwin ==
    /\ twin_players = <<>>
    /\ twin_result = <<>>
    /\ shuffle_outcome = <<>>

\* the players table without rows
NoRows == [x \in {} |-> PlayerRow("", "", 0, 0)]

NoTxn == [players |-> NoRows, games |-> 0, game_players |-> <<>>]

NoCall == [stage |-> "idle", winning_team_index |-> -1, team_players |-> <<>>,
           team |-> 0, member |-> 0]

NoOp == [fn |-> "none", user_id |-> 0, result |-> "", teams |-> <<>>,
         winning_team_index |-> -1, games |-> 0, game_players |-> 0,
         locked |-> FALSE]

\* an empty database that nothing has called
NoDb ==
    /\ db = NoRows
    /\ games = 0
    /\ game_players = <<>>
    /\ lock = "none"
    /\ txn = NoTxn
    /\ call = NoCall
    /\ outcome = "none"
    /\ ops = 0
    /\ last_op = NoOp
    /\ before_db = NoRows

\* the guilds the bot is in, and the members of their voice channels
Guilds == {1, 2}
GuildMembers == {1, 2, 3, 4}

\* the guild has no voice channel named "Waiting Room"
NoRoom == [exists |-> FALSE, members |-> <<>>]

\* bot.current_teams = {}
NoTeamsStored == [g \in {} |-> <<>>]

NoCommand == [stage |-> "idle", guild |-> 0, region |-> "", rand |-> FALSE]

NoCmd == [name |-> "none", guild |-> 0, room |-> NoRoom, region |-> "",
          team_number |-> 0, kind |-> "", status |-> "", partition |-> <<>>]

NoStreak == [k |-> 0, guild |-> 0, team_number |-> 0, kind |-> "", base |-> NoRows,
          first |-> NoRows, extra |-> [u \in GuildMembers |-> 0]]

\* the bot after on_ready
NoBot ==
    /\ current_teams = NoTeamsStored
    /\ command = NoCommand
    /\ commands = 0
    /\ last_cmd = NoCmd
    /\ before_stored = NoTeamsStored
    /\ streak = NoStreak

NoRest == NoDb /\ NoBot

NoOther == NoTwin /\ NoRest

Init ==
    /\ players \in Rosters
    /\ pc = "idle"
    /\ entry = NoEntry
    /\ num_teams = 0
    /\ use_randomization = FALSE
    /\ region_players = <<>>
    /\ other_players = <<>>
    /\ attempts = 0
    /\ attempt = 0
    /\ best_teams = <<>>
    /\ best_variance = Inf
    /\ first_variance = Inf
    /\ prev_best_variance = Inf
    /\ result = <<>>
    /\ total_players = 0
    /\ region_count = 0
    /\ final_teams = 0
    /\ NoAttempt
    /\ NoOther

(* --------------------------- random mode ------------------------------ *)
\* the partitions generate_random_teams(list, k) can return
generate_random_teams(list, k) ==
    IF Len(list) < 2 \/ k < 1 THEN {<<>>}
    ELSE {NonEmptyTeams(Draft(shuffled_players, 0, EmptyTeams(k), FALSE))
          : shuffled_players \in Shuffles(list, ShuffleBudget(Len(list)))}

\* the partitions generate_random_teams_with_region(region, other, k) can return
generate_random_teams_with_region(region, other, k) ==
    IF k < 1 \/ Len(region) = 0 THEN {<<>>}
    ELSE UNION {
        {NonEmptyTeams(Draft(all_remaining, 0, SeedRegion(shuffled_region, k), FALSE))
         : all_remaining \in
             Shuffles(DropFirst(shuffled_region, k) \o other,
                      ShuffleBudget(Len(region) + Len(other))
                      - Displaced(region, shuffled_region))}
        : shuffled_region \in Shuffles(region, ShuffleBudget(Len(region) + Len(other)))}

(* ---------------------------- optimizers ------------------------------ *)
\* SeedOrderings with the tiers of the aggressive randomization in every call
SeedOrderingsWideTiers(list, att, rand) ==
    IF att > 0 \/ rand
    THEN TierShuffles(SortDesc(list), Max(2, Len(list) \div 3), ShuffleBudget(Len(list)))
    ELSE {SortDesc(list)}

\* the seed orderings an attempt of generate_optimal_teams can start from
SeedOrderings(list, att, rand) ==
    LET players_sorted == SortDesc(list)
        tier_size == IF rand THEN Max(2, Len(list) \div 3) ELSE Max(1, Len(list) \div 4)
    IN IF att > 0 \/ rand
       THEN TierShuffles(players_sorted, tier_size, ShuffleBudget(Len(list)))
       ELSE {players_sorted}

\* one attempt of generate_optimal_teams from the seed ordering seed_list
OptimalAttempt(seed_list, k) ==
    LocalSearch(Draft(seed_list, 0, EmptyTeams(k), TRUE), TRUE, 0,
                IF Len(seed_list) <= 8 THEN LocalIterationsSmall ELSE LocalIterationsLarge,
                1)

\* the orderings of the region players an attempt can seed the teams from
RegionOrderings(region, other, att, rand) ==
    LET region_sorted == SortDesc(region)
        tier_size == IF rand THEN Max(2, Len(region) \div 2) ELSE Max(1, Len(region) \div 3)
    IN IF att > 0 \/ rand
       THEN TierShuffles(region_sorted, tier_size, ShuffleBudget(Len(region) + Len(other)))
       ELSE {region_sorted}

\* the orderings of the remaining pool an attempt can draft from
RemainingOrderings(region, region_list, other, k, att, rand) ==
    LET all_remaining == DropFirst(region_list, k) \o SortDesc(other)
        tier_size == IF rand THEN Max(2, Len(all_remaining) \div 3)
                     ELSE Max(1, Len(all_remaining) \div 4)
    IN IF (att > 0 /\ Len(all_remaining) > 0) \/ rand
       THEN TierShuffles(all_remaining, tier_size,
                         ShuffleBudget(Len(region) + Len(other))
                         - Displaced(SortDesc(region), region_list))
       ELSE {all_remaining}

\* RegionAttemptTeams with the local search swapping the member at index 0 too
RegionAttemptSwapsSeeds(region_list, all_remaining, k) ==
    LocalSearch(Draft(all_remaining, 0, SeedRegion(region_list, k), TRUE), TRUE, 0,
                IF Len(all_remaining) <= 8 THEN RegionLocalIterationsSmall
                ELSE RegionLocalIterationsLarge,
                1)

\* one attempt of generate_optimal_teams_with_region
RegionAttemptTeams(region_list, all_remaining, k) ==
    LocalSearch(Draft(all_remaining, 0, SeedRegion(region_list, k), TRUE), TRUE, 0,
                IF Len(all_remaining) <= 8 THEN RegionLocalIterationsSmall
                ELSE RegionLocalIterationsLarge,
                2)

\* KeepBest with <= for <: a tie replaces the stored partition
KeepBestOnTies(work) ==
    /\ IF LessEq(calculate_variance(work), best_variance)
       THEN best_variance' = calculate_variance(work) /\ best_teams' = work
       ELSE UNCHANGED <<best_variance, best_teams>>
    /\ first_variance' = IF attempt = 0 THEN calculate_variance(work) ELSE first_variance
    /\ prev_best_variance' = best_variance
    /\ attempt' = attempt + 1

\* KeepBest keeping every attempt's teams, better or not
KeepLast(work) ==
    /\ best_variance' = calculate_variance(work)
    /\ best_teams' = work
    /\ first_variance' = IF attempt = 0 THEN calculate_variance(work) ELSE first_variance
    /\ prev_best_variance' = best_variance
    /\ attempt' = attempt + 1

\* if final_variance < best_variance: keep this attempt's teams
KeepBest(work) ==
    LET final_variance == calculate_variance(work)
    IN /\ IF Less(final_variance, best_variance)
          THEN best_variance' = final_variance /\ best_teams' = work
          ELSE UNCHANGED <<best_variance, best_teams>>
       /\ first_variance' = IF attempt = 0 THEN final_variance ELSE first_variance
       /\ prev_best_variance' = best_variance
       /\ attempt' = attempt + 1

\* the pass loop of an attempt of generate_optimal_teams, as LocalSearchRun
OptimalAttemptRun(seed_list, k) ==
    LocalSearchRun(Draft(seed_list, 0, EmptyTeams(k), TRUE), TRUE, 0,
                   IF Len(seed_list) <= 8 THEN LocalIterationsSmall
                   ELSE LocalIterationsLarge,
                   1)

\* the pass loop of an attempt of generate_optimal_teams_with_region
RegionAttemptRun(region_list, all_remaining, k) ==
    LocalSearchRun(Draft(all_remaining, 0, SeedRegion(region_list, k), TRUE), TRUE, 0,
                   IF Len(all_remaining) <= 8 THEN RegionLocalIterationsSmall
                   ELSE RegionLocalIterationsLarge,
                   2)

\* what the attempt that ended with the partition work leaves behind
Recorded(work, run, budget) ==
    /\ UNCHANGED teams
    /\ improved' = run.improved
    /\ iterations' = run.iterations
    /\ max_local_iterations' = budget
    /\ variances' = Append(variances, calculate_variance(work))
    /\ stored_at' = IF best_teams' /= best_teams THEN attempt ELSE stored_at
    /\ stored_own' = IF best_teams' /= best_teams THEN best_teams' = work ELSE stored_own

\* the attempts the model explores of a loop of `attempts` attempts
Explored(n) == Min(n, MaxAttempts)

(* -------------------------- entry points ------------------------------ *)
\* RegionSplit with the filter left out
RegionSplitAll(list, required_region) == list

\* region_players / other_players of balance_teams_with_region
RegionSplit(list, required_region) ==
    SelectSeq(list, LAMBDA p : Lower(p.region) = Lower(required_region))

OtherSplit(list, required_region) ==
    SelectSeq(list, LAMBDA p : Lower(p.region) /= Lower(required_region))

Returns(value) ==
    /\ result' = value
    /\ pc' = "done"

\* StartOptimal without the test of the roster's length
StartOptimalAnyRoster(list, k, max_iterations, rand) ==
    IF k < 1
    THEN Returns(<<>>) /\ UNCHANGED loopVars
    ELSE /\ pc' = "optimizing"
         /\ num_teams' = k
         /\ use_randomization' = rand
         /\ attempts' = Min(max_iterations,
                            IF Len(list) <= 12 THEN AttemptsSmallRoster
                            ELSE AttemptsLargeRoster)
         /\ attempt' = 0
         /\ best_teams' = <<>>
         /\ best_variance' = Inf
         /\ first_variance' = Inf
         /\ prev_best_variance' = Inf
         /\ UNCHANGED <<region_players, other_players, result>>

\* generate_optimal_teams up to its attempt loop
StartOptimal(list, k, max_iterations, rand) ==
    IF Len(list) < 2 \/ k < 1
    THEN Returns(<<>>) /\ UNCHANGED loopVars
    ELSE /\ pc' = "optimizing"
         /\ num_teams' = k
         /\ use_randomization' = rand
         /\ attempts' = Min(max_iterations,
                            IF Len(list) <= 12 THEN AttemptsSmallRoster
                            ELSE AttemptsLargeRoster)
         /\ attempt' = 0
         /\ best_teams' = <<>>
         /\ best_variance' = Inf
         /\ first_variance' = Inf
         /\ prev_best_variance' = Inf
         /\ UNCHANGED <<region_players, other_players, result>>

\* StartRegionOptimal with the ceiling as the number of attempts
StartRegionOptimalFlat(region, other, k, rand) ==
    IF k < 1 \/ Len(region) = 0
    THEN Returns(<<>>) /\ UNCHANGED loopVars
    ELSE /\ pc' = "region_optimizing"
         /\ num_teams' = k
         /\ use_randomization' = rand
         /\ region_players' = region
         /\ other_players' = other
         /\ attempts' = RegionAttemptsCeiling
         /\ attempt' = 0
         /\ best_teams' = <<>>
         /\ best_variance' = Inf
         /\ first_variance' = Inf
         /\ prev_best_variance' = Inf
         /\ UNCHANGED result

\* generate_optimal_teams_with_region up to its attempt loop
StartRegionOptimal(region, other, k, rand) ==
    IF k < 1 \/ Len(region) = 0
    THEN Returns(<<>>) /\ UNCHANGED loopVars
    ELSE /\ pc' = "region_optimizing"
         /\ num_teams' = k
         /\ use_randomization' = rand
         /\ region_players' = region
         /\ other_players' = other
         /\ attempts' = Min(RegionAttemptsCeiling,
                            IF Len(region) + Len(other) > 12 THEN RegionAttemptsLarge
                            ELSE RegionAttemptsSmall)
         /\ attempt' = 0
         /\ best_teams' = <<>>
         /\ best_variance' = Inf
         /\ first_variance' = Inf
         /\ prev_best_variance' = Inf
         /\ UNCHANGED result

BalanceTeams(rand) ==
    /\ pc = "idle"
    /\ entry' = Entry("balance_teams", 2, rand, "", DefaultMaxIterations)
    /\ IF Len(players) < 2 \/ BalanceTeamCount(Len(players)) < 1
       THEN Returns(<<>>) /\ UNCHANGED loopVars
       ELSE IF rand
       THEN /\ \E shuffled \in generate_random_teams(players, BalanceTeamCount(Len(players))) :
                   Returns(shuffled)
            /\ UNCHANGED loopVars
       ELSE StartOptimal(players, BalanceTeamCount(Len(players)),
                         DefaultMaxIterations, FALSE)
    /\ UNCHANGED <<players, plannerVars, otherVars, attemptVars, stepVars>>

BalanceTeamsWithRegion(required_region, rand) ==
    LET region == RegionSplit(players, required_region)
        other == OtherSplit(players, required_region)
        k == RegionTeamCount(Len(players), Len(region))
    IN /\ pc = "idle"
       /\ entry' = Entry("balance_teams_with_region", 0, rand, required_region, 0)
       /\ IF Len(players) < 2 \/ Len(region) = 0 \/ k < 1
          THEN Returns(<<>>) /\ UNCHANGED loopVars
          ELSE IF rand
          THEN /\ \E shuffled \in generate_random_teams_with_region(region, other, k) :
                      Returns(shuffled)
               /\ UNCHANGED loopVars
          ELSE StartRegionOptimal(region, other, k, FALSE)
       /\ UNCHANGED <<players, plannerVars, otherVars, attemptVars, stepVars>>

MaxIterationsArgs == {-1, 0, 1, DefaultMaxIterations}

GenerateOptimalTeams(k, max_iterations, rand) ==
    /\ pc = "idle"
    /\ entry' = Entry("generate_optimal_teams", k, rand, "", max_iterations)
    /\ StartOptimal(players, k, max_iterations, rand)
    /\ UNCHANGED <<players, plannerVars, otherVars, attemptVars, stepVars>>

GenerateOptimalTeamsWithRegion(required_region, k, rand) ==
    /\ pc = "idle"
    /\ entry' = Entry("generate_optimal_teams_with_region", k, rand, required_region, 0)
    /\ StartRegionOptimal(RegionSplit(players, required_region),
                          OtherSplit(players, required_region), k, rand)
    /\ UNCHANGED <<players, plannerVars, otherVars, attemptVars, stepVars>>

GenerateRandomTeams(k) ==
    /\ pc = "idle"
    /\ entry' = Entry("generate_random_teams", k, TRUE, "", 0)
    /\ \E shuffled \in generate_random_teams(players, k) : Returns(shuffled)
    /\ UNCHANGED <<players, plannerVars, otherVars, loopVars, attemptVars, stepVars>>

GenerateRandomTeamsWithRegion(required_region, k) ==
    /\ pc = "idle"
    /\ entry' = Entry("generate_random_teams_with_region", k, TRUE, required_region, 0)
    /\ region_players' = RegionSplit(players, required_region)
    /\ other_players' = OtherSplit(players, required_region)
    /\ \E shuffled \in generate_random_teams_with_region(
                        RegionSplit(players, required_region),
                        OtherSplit(players, required_region), k) : Returns(shuffled)
    /\ UNCHANGED <<players, plannerVars, otherVars, num_teams, use_randomization, attempts,
                   attempt, best_teams, best_variance, first_variance,
                   prev_best_variance, attemptVars, stepVars>>

(* --------------------------- attempt loops ---------------------------- *)
\* one iteration of the attempt loop of generate_optimal_teams
Attempt ==
    /\ pc = "optimizing"
    /\ attempt < Explored(attempts)
    /\ \E seed_list \in SeedOrderings(players, attempt, use_randomization) :
         \E work \in {OptimalAttempt(seed_list, num_teams)} :
           /\ KeepBest(work)
           /\ Recorded(work, OptimalAttemptRun(seed_list, num_teams),
                       IF Len(seed_list) <= 8 THEN LocalIterationsSmall
                       ELSE LocalIterationsLarge)
    /\ UNCHANGED <<players, pc, entry, num_teams, use_randomization, region_players,
                   other_players, attempts, result, plannerVars, otherVars, stepVars>>

\* one iteration of the attempt loop of generate_optimal_teams_with_region
RegionAttempt ==
    /\ pc = "region_optimizing"
    /\ attempt < Explored(attempts)
    /\ \E region_list \in RegionOrderings(region_players, other_players, attempt,
                                           use_randomization) :
         \E all_remaining \in RemainingOrderings(region_players, region_list,
                                                 other_players, num_teams, attempt,
                                                 use_randomization) :
         \E work \in {RegionAttemptTeams(region_list, all_remaining, num_teams)} :
           /\ KeepBest(work)
           /\ Recorded(work, RegionAttemptRun(region_list, all_remaining, num_teams),
                       IF Len(all_remaining) <= 8 THEN RegionLocalIterationsSmall
                       ELSE RegionLocalIterationsLarge)
    /\ UNCHANGED <<players, pc, entry, num_teams, use_randomization, region_players,
                   other_players, attempts, result, plannerVars, otherVars, stepVars>>

\* after the loop: return [team for team in best_teams if team], or []
Return ==
    /\ pc \in {"optimizing", "region_optimizing"}
    /\ attempt >= Explored(attempts)
    /\ Returns(NonEmptyTeams(best_teams))
    /\ UNCHANGED <<players, entry, loopVars, plannerVars, otherVars, attemptVars, stepVars>>

Next ==
    \/ \E rand \in BOOLEAN : BalanceTeams(rand)
    \/ \E required_region \in RequiredRegions, rand \in BOOLEAN :
           BalanceTeamsWithRegion(required_region, rand)
    \/ \E k \in 0..MaxTeams, max_iterations \in MaxIterationsArgs, rand \in BOOLEAN :
           GenerateOptimalTeams(k, max_iterations, rand)
    \/ \E required_region \in RequiredRegions, k \in 0..MaxTeams, rand \in BOOLEAN :
           GenerateOptimalTeamsWithRegion(required_region, k, rand)
    \/ \E k \in 0..MaxTeams : GenerateRandomTeams(k)
    \/ \E required_region \in RequiredRegions, k \in 0..MaxTeams :
           GenerateRandomTeamsWithRegion(required_region, k)
    \/ Attempt
    \/ RegionAttempt
    \/ Return

Spec == Init /\ [][Next]_vars

(* ----------------------- one attempt, step by step -------------------- *)
\* SpecSearch runs one attempt of an optimizer one player and one trial swap
\* at a time: the draft, the passes and the trial swaps of each pass.

\* what no step of an attempt changes
searchFrame == <<players, attempts, best_teams, best_variance, first_variance,
                 prev_best_variance, variances, stored_at, stored_own, plannerVars,
                 otherVars>>

\* attempt number att of generate_optimal_teams(players, k), up to the draft
BeginAttempt(k, att, rand) ==
    /\ pc = "idle"
    /\ entry' = Entry("generate_optimal_teams", k, rand, "", DefaultMaxIterations)
    /\ IF Len(players) < 2 \/ k < 1
       THEN /\ Returns(<<>>)
            /\ UNCHANGED <<num_teams, use_randomization, attempt, teams, player_list>>
       ELSE /\ \E seed_list \in SeedOrderings(players, att, rand) :
                   player_list' = seed_list
            /\ pc' = "drafting"
            /\ num_teams' = k
            /\ use_randomization' = rand
            /\ attempt' = att
            /\ teams' = EmptyTeams(k)
            /\ UNCHANGED result
    /\ UNCHANGED <<searchFrame, region_players, other_players, improved, iterations,
                   max_local_iterations, drafted, team_idx, first, current_variance,
                   trial, last_trial, before_teams, before_variance, initial_variance,
                   seeded>>

\* attempt number att of generate_optimal_teams_with_region, up to the draft
BeginRegionAttempt(required_region, k, att, rand) ==
    LET region == RegionSplit(players, required_region)
        other == OtherSplit(players, required_region)
    IN /\ pc = "idle"
       /\ entry' = Entry("generate_optimal_teams_with_region", k, rand, required_region, 0)
       /\ IF k < 1 \/ Len(region) = 0
          THEN /\ Returns(<<>>)
               /\ UNCHANGED <<num_teams, use_randomization, attempt, teams, player_list,
                              region_players, other_players, first, seeded>>
          ELSE /\ \E region_list \in RegionOrderings(region, other, att, rand) :
                    \E all_remaining \in
                          RemainingOrderings(region, region_list, other, k, att, rand) :
                      /\ teams' = SeedRegion(region_list, k)
                      /\ seeded' = SeedRegion(region_list, k)
                      /\ player_list' = all_remaining
               /\ pc' = "drafting"
               /\ num_teams' = k
               /\ use_randomization' = rand
               /\ attempt' = att
               /\ region_players' = region
               /\ other_players' = other
               /\ first' = 2
               /\ UNCHANGED result
       /\ UNCHANGED <<searchFrame, improved, iterations, max_local_iterations, drafted,
                      team_idx, current_variance, trial, last_trial, before_teams,
                      before_variance, initial_variance>>

\* one iteration of the draft loop: the next player is offered to its team
DraftStep ==
    /\ pc = "drafting"
    /\ drafted < Len(player_list)
    /\ team_idx' = DraftIndex(drafted, num_teams, TRUE)
    /\ teams' = Place(teams, DraftIndex(drafted, num_teams, TRUE), player_list[drafted + 1])
    /\ before_teams' = teams
    /\ drafted' = drafted + 1
    /\ UNCHANGED <<searchFrame, pc, entry, result, num_teams, use_randomization, attempt,
                   region_players, other_players, improved, iterations,
                   max_local_iterations, player_list, first, current_variance, trial,
                   last_trial, before_variance, initial_variance, seeded>>

\* improved = True; iterations = 0; max_local_iterations = ...
EndDraft ==
    /\ pc = "drafting"
    /\ drafted = Len(player_list)
    /\ pc' = "searching"
    /\ improved' = TRUE
    /\ iterations' = 0
    /\ max_local_iterations' =
           IF first = 1
           THEN (IF Len(players) <= 8 THEN LocalIterationsSmall ELSE LocalIterationsLarge)
           ELSE (IF Len(player_list) <= 8 THEN RegionLocalIterationsSmall
                 ELSE RegionLocalIterationsLarge)
    /\ initial_variance' = calculate_variance(teams)
    /\ UNCHANGED <<searchFrame, entry, result, num_teams, use_randomization, attempt,
                   region_players, other_players, teams, player_list, drafted, team_idx,
                   first, current_variance, trial, last_trial, before_teams,
                   before_variance, seeded>>

\* the test of the while loop, and the head of a pass when it is entered
BeginPass ==
    /\ pc = "searching"
    /\ IF improved /\ iterations < max_local_iterations
       THEN /\ pc' = "swapping"
            /\ improved' = FALSE
            /\ iterations' = iterations + 1
            /\ current_variance' = calculate_variance(teams)
            /\ trial' = 0
       ELSE /\ pc' = "searched"
            /\ UNCHANGED <<improved, iterations, current_variance, trial>>
    /\ UNCHANGED <<searchFrame, entry, result, num_teams, use_randomization, attempt,
                   region_players, other_players, teams, max_local_iterations, player_list,
                   drafted, team_idx, first, last_trial, before_teams, before_variance,
                   initial_variance, seeded>>

\* the body of the innermost loops: swap, compare, keep or revert
TrialSwap ==
    /\ pc = "swapping"
    /\ trial < Len(Trials(teams, 1, 2, first))
    /\ \E t \in {Trials(teams, 1, 2, first)[trial + 1]} :
         \E r \in {TrySwap([teams |-> teams, variance |-> current_variance,
                            improved |-> improved], t.i, t.p1, t.j, t.p2)} :
           /\ teams' = r.teams
           /\ current_variance' = r.variance
           /\ improved' = r.improved
           /\ last_trial' = t
    /\ before_teams' = teams
    /\ before_variance' = current_variance
    /\ trial' = trial + 1
    /\ UNCHANGED <<searchFrame, pc, entry, result, num_teams, use_randomization, attempt,
                   region_players, other_players, iterations, max_local_iterations,
                   player_list, drafted, team_idx, first, initial_variance, seeded>>

\* the loops of the pass are through
EndPass ==
    /\ pc = "swapping"
    /\ trial = Len(Trials(teams, 1, 2, first))
    /\ pc' = "searching"
    /\ UNCHANGED <<searchFrame, entry, result, num_teams, use_randomization, attempt,
                   region_players, other_players, attemptVars, stepVars>>

SearchNext ==
    \/ \E k \in 0..MaxTeams, att \in 0..(MaxAttempts - 1), rand \in BOOLEAN :
           BeginAttempt(k, att, rand)
    \/ \E required_region \in RequiredRegions, k \in 0..MaxTeams,
          att \in 0..(MaxAttempts - 1), rand \in BOOLEAN :
           BeginRegionAttempt(required_region, k, att, rand)
    \/ DraftStep
    \/ EndDraft
    \/ BeginPass
    \/ TrialSwap
    \/ EndPass

SpecSearch == Init /\ [][SearchNext]_vars

(* ------------------------- large rosters ------------------------------ *)
\* SpecLarge calls balance_teams and balance_teams_with_region on the whole
\* pool of n members, 0 <= n <= MaxRoster.
MaxRoster == 21
\* the rating profile of the large rosters
LargeProfile == 3

LargeRosters ==
    {RosterOf(1..n, LargeProfile, 1, n) : n \in 0..MaxRoster}

LargeInit ==
    /\ players \in LargeRosters
    /\ pc = "idle"
    /\ entry = NoEntry
    /\ num_teams = 0
    /\ use_randomization = FALSE
    /\ region_players = <<>>
    /\ other_players = <<>>
    /\ attempts = 0
    /\ attempt = 0
    /\ best_teams = <<>>
    /\ best_variance = Inf
    /\ first_variance = Inf
    /\ prev_best_variance = Inf
    /\ result = <<>>
    /\ total_players = 0
    /\ region_count = 0
    /\ final_teams = 0
    /\ NoAttempt
    /\ NoOther

LargeNext ==
    \/ \E rand \in BOOLEAN : BalanceTeams(rand)
    \/ \E required_region \in RequiredRegions, rand \in BOOLEAN :
           BalanceTeamsWithRegion(required_region, rand)
    \/ \E k \in 0..MaxTeams, max_iterations \in MaxIterationsArgs :
           GenerateOptimalTeams(k, max_iterations, FALSE)
    \/ Attempt
    \/ RegionAttempt
    \/ Return

SpecLarge == LargeInit /\ [][LargeNext]_vars

(* --------------------------- planner calls ---------------------------- *)
\* SpecPlanner applies the team-count planners to the player counts
\* -MaxTotal..MaxTotal and the region player counts 0..MaxTotal.
MaxTotal == 30

PlannerInit ==
    /\ total_players \in (-MaxTotal)..MaxTotal
    /\ region_count \in 0..MaxTotal
    /\ final_teams = 0
    /\ players = <<>>
    /\ pc = "idle"
    /\ entry = NoEntry
    /\ num_teams = 0
    /\ use_randomization = FALSE
    /\ region_players = <<>>
    /\ other_players = <<>>
    /\ attempts = 0
    /\ attempt = 0
    /\ best_teams = <<>>
    /\ best_variance = Inf
    /\ first_variance = Inf
    /\ prev_best_variance = Inf
    /\ result = <<>>
    /\ NoAttempt
    /\ NoOther

Planned(fn, count) ==
    /\ pc = "idle"
    /\ pc' = "planned"
    /\ entry' = Entry(fn, 0, FALSE, "", 0)
    /\ final_teams' = count
    /\ UNCHANGED <<players, loopVars, result, total_players, region_count,
                   attemptVars, stepVars, otherVars>>

\* calculate_optimal_teams(total_players)
CalculateOptimalTeams ==
    Planned("calculate_optimal_teams", calculate_optimal_teams(total_players))

\* the team count of balance_teams for a roster of total_players >= 2
PlanBalanceTeams ==
    /\ total_players >= 2
    /\ Planned("balance_teams", BalanceTeamCount(total_players))

\* the team count of balance_teams_with_region for total_players >= 2 of
\* which region_count >= 1 are region players
PlanBalanceTeamsWithRegion ==
    /\ total_players >= 2
    /\ region_count >= 1
    /\ region_count <= total_players
    /\ Planned("balance_teams_with_region", RegionTeamCount(total_players, region_count))

PlannerNext ==
    \/ CalculateOptimalTeams
    \/ PlanBalanceTeams
    \/ PlanBalanceTeamsWithRegion

SpecPlanner == PlannerInit /\ [][PlannerNext]_vars

(* ----------------------------- scenario ------------------------------ *)
\* SpecScenario calls balance_teams in balanced mode on the eight players of
\* conservative skills 30, 28, ..., 16, given in every rotation of the
\* descending and of the ascending order, with sigma profiles 0..ScenarioSigmas.
ScenarioSigmas == 2

ScenarioSkills == <<30, 28, 26, 24, 22, 20, 18, 16>>

\* the i-th player of the scenario roster of rotation r, direction d, profile s
ScenarioPlayer(i, r, d, s) ==
    LET at == ((i - 1 + r) % Len(ScenarioSkills)) + 1
        skill == ScenarioSkills[IF d THEN at ELSE Len(ScenarioSkills) + 1 - at]
        sigma == (i * s) % 3
    IN [user_id |-> i, region |-> RegionOf(i), mu |-> skill + 3 * sigma, sigma |-> sigma]

RECURSIVE ScenarioRoster(_, _, _, _)
ScenarioRoster(n, r, d, s) ==
    IF n = 0 THEN <<>>
    ELSE Append(ScenarioRoster(n - 1, r, d, s), ScenarioPlayer(n, r, d, s))

ScenarioRosters ==
    {ScenarioRoster(Len(ScenarioSkills), r, d, s) :
        r \in 0..(Len(ScenarioSkills) - 1), d \in BOOLEAN, s \in 0..ScenarioSigmas}

ScenarioInit ==
    /\ players \in ScenarioRosters
    /\ pc = "idle"
    /\ entry = NoEntry
    /\ num_teams = 0
    /\ use_randomization = FALSE
    /\ region_players = <<>>
    /\ other_players = <<>>
    /\ attempts = 0
    /\ attempt = 0
    /\ best_teams = <<>>
    /\ best_variance = Inf
    /\ first_variance = Inf
    /\ prev_best_variance = Inf
    /\ result = <<>>
    /\ total_players = 0
    /\ region_count = 0
    /\ final_teams = 0
    /\ NoAttempt
    /\ NoOther

ScenarioNext ==
    \/ BalanceTeams(FALSE)
    \/ Attempt
    \/ Return

SpecScenario == ScenarioInit /\ [][ScenarioNext]_vars

(* --------------------------- small rosters --------------------------- *)
\* SpecSmall calls balance_teams in balanced mode on every sub-roster of a pool
\* of SmallPool members, under every rating profile.
SmallPool == 8

SmallRosters ==
    {RosterOf(S, p, 1, SmallPool) : S \in SUBSET (1..SmallPool), p \in 1..NumProfiles}

SmallInit ==
    /\ players \in SmallRosters
    /\ pc = "idle"
    /\ entry = NoEntry
    /\ num_teams = 0
    /\ use_randomization = FALSE
    /\ region_players = <<>>
    /\ other_players = <<>>
    /\ attempts = 0
    /\ attempt = 0
    /\ best_teams = <<>>
    /\ best_variance = Inf
    /\ first_variance = Inf
    /\ prev_best_variance = Inf
    /\ result = <<>>
    /\ total_players = 0
    /\ region_count = 0
    /\ final_teams = 0
    /\ NoAttempt
    /\ NoOther

SmallNext ==
    \/ BalanceTeams(FALSE)
    \/ Attempt
    \/ Return

SpecSmall == SmallInit /\ [][SmallNext]_vars

(* ----------------------------- twin calls ---------------------------- *)
\* SpecTwin calls balance_teams in random mode twice, on a roster and on the
\* same players in the same order with the ratings of another profile, and
\* lets random.shuffle give the same outcome in both calls.
TwinInit ==
    /\ players \in Rosters
    /\ twin_players \in {Rerated(players, q, Len(players)) : q \in 1..NumProfiles}
    /\ twin_result = <<>>
    /\ shuffle_outcome = <<>>
    /\ pc = "idle"
    /\ entry = NoEntry
    /\ num_teams = 0
    /\ use_randomization = FALSE
    /\ region_players = <<>>
    /\ other_players = <<>>
    /\ attempts = 0
    /\ attempt = 0
    /\ best_teams = <<>>
    /\ best_variance = Inf
    /\ first_variance = Inf
    /\ prev_best_variance = Inf
    /\ result = <<>>
    /\ total_players = 0
    /\ region_count = 0
    /\ final_teams = 0
    /\ NoAttempt
    /\ NoRest

\* balance_teams(players, use_randomization=True) and
\* balance_teams(twin_players, use_randomization=True) under one shuffle outcome
BalanceTeamsTwice ==
    /\ pc = "idle"
    /\ entry' = Entry("balance_teams", 2, TRUE, "", DefaultMaxIterations)
    /\ \E perm \in Perms(Identity(Len(players))) :
           /\ shuffle_outcome' = perm
           /\ result' = RandomBalanceBy(players, perm)
           /\ twin_result' = RandomBalanceBy(twin_players, perm)
    /\ pc' = "done"
    /\ UNCHANGED <<players, twin_players, loopVars, plannerVars, attemptVars,
                   stepVars, restVars>>

TwinNext == BalanceTeamsTwice

SpecTwin == TwinInit /\ [][TwinNext]_vars

(* --------------------------- database calls --------------------------- *)
\* SpecDb calls the methods of TrueSkillDatabase one after the other on a
\* database that starts empty.  Every method opens a connection of its own;
\* a connection that has written and not committed holds the write lock of
\* the database file, and a statement that writes through another connection
\* then fails, after the busy timeout, with sqlite3.OperationalError
\* ("database is locked").  A connection left open by a call that raised
\* keeps its lock until the garbage collector closes it.
\* the user ids the calls are given
DbUsers == {1, 2, 3}
Usernames == {"ann", "bob"}
RegionArgs == {NoRegion, "NA", "eu"}
RatingArgs == {Rating(DefaultMu, DefaultSigma), Rating(30, 5)}
ResultArgs == StatResults \cup {"tie"}
\* the teams record_game_result is called with: two or more non-empty teams
\* (trueskill.rate raises on anything else)
GameTeams == {<<<<1>>, <<2>>>>, <<<<1, 2>>, <<3>>>>, <<<<3>>, <<2, 1>>>>}

Op(fn, user_id, kind, id_teams, w) ==
    [fn |-> fn, user_id |-> user_id, result |-> kind, teams |-> id_teams,
     winning_team_index |-> w, games |-> games, game_players |-> Len(game_players),
     locked |-> lock /= "none"]

DbInit ==
    /\ players = <<>>
    /\ pc = "idle"
    /\ entry = NoEntry
    /\ num_teams = 0
    /\ use_randomization = FALSE
    /\ region_players = <<>>
    /\ other_players = <<>>
    /\ attempts = 0
    /\ attempt = 0
    /\ best_teams = <<>>
    /\ best_variance = Inf
    /\ first_variance = Inf
    /\ prev_best_variance = Inf
    /\ result = <<>>
    /\ total_players = 0
    /\ region_count = 0
    /\ final_teams = 0
    /\ NoAttempt
    /\ NoOther

\* a method is called: none is running
DbCall ==
    /\ call.stage = "idle"
    /\ ops < MaxOps
    /\ ops' = ops + 1
    /\ before_db' = db

\* insert_or_update_player(user_id, username, region, mu, sigma)
InsertOrUpdatePlayer(user_id, username, region, mu, sigma) ==
    /\ DbCall
    /\ last_op' = Op("insert_or_update_player", user_id, "", <<>>, -1)
    /\ IF lock = "none"
       THEN /\ db' = insert_or_update_player(db, user_id, username, region, mu, sigma)
            /\ outcome' = "returned"
       ELSE /\ db' = db
            /\ outcome' = "raised"
    /\ UNCHANGED <<games, game_players, lock, txn, call, balancerVars, botVars>>

\* update_player_stats(user_id, new_rating, result); with a result string
\* other than 'win', 'loss' and 'draw' it executes nothing and commits
UpdatePlayerStats(user_id, new_rating, kind) ==
    /\ DbCall
    /\ last_op' = Op("update_player_stats", user_id, kind, <<>>, -1)
    /\ IF kind \notin StatResults \/ lock = "none"
       THEN /\ db' = update_player_stats(db, user_id, new_rating, kind)
            /\ outcome' = "returned"
       ELSE /\ db' = db
            /\ outcome' = "raised"
    /\ UNCHANGED <<games, game_players, lock, txn, call, balancerVars, botVars>>

\* record_game_result(teams, winning_team_index) up to the INSERT INTO games:
\* the players without a row are created and committed, the ratings are
\* read, and the connection of the method starts its write transaction
RecordGameResult(id_teams, w) ==
    /\ DbCall
    /\ last_op' = Op("record_game_result", 0, "", id_teams, w)
    /\ IF lock = "none"
       THEN /\ db' = AutoCreated(db, Concat(id_teams))
            /\ lock' = "record_game_result"
            /\ txn' = [players |-> db', games |-> games + 1,
                       game_players |-> game_players]
            /\ call' = [stage |-> "recording", winning_team_index |-> w,
                        team_players |-> TeamPlayers(db', id_teams),
                        team |-> 0, member |-> 0]
            /\ outcome' = "running"
       ELSE /\ outcome' = "raised"
            /\ UNCHANGED <<db, lock, txn, call>>
    /\ UNCHANGED <<games, game_players, balancerVars, botVars>>

\* one turn of the inner loop of record_game_result: the game_players row of
\* the next participant, then the player's statistics; in a draw through the
\* connection of the method, else through update_player_stats, which opens a
\* second connection
RecordParticipant ==
    /\ call.stage = "recording"
    /\ call.team < Len(call.team_players)
    /\ LET player == call.team_players[call.team + 1][call.member + 1]
           kind == GameOutcome(call.team, call.winning_team_index)
           new_rating == Rate(Rating(player.mu, player.sigma), kind)
           row == [game |-> txn.games, user_id |-> player.user_id,
                   team |-> call.team, old_mu |-> player.mu,
                   old_sigma |-> player.sigma, new_mu |-> new_rating.mu,
                   new_sigma |-> new_rating.sigma]
           next == IF call.member + 1 < Len(call.team_players[call.team + 1])
                   THEN [call EXCEPT !.member = @ + 1]
                   ELSE [call EXCEPT !.team = @ + 1, !.member = 0]
       IN  IF kind = "draw"
           THEN /\ txn' = [txn EXCEPT
                              !.game_players = Append(@, row),
                              !.players = update_player_stats(@, player.user_id,
                                                              new_rating, "draw")]
                /\ call' = next
                /\ UNCHANGED <<db, outcome>>
           ELSE IF lock = "none"
           THEN /\ txn' = [txn EXCEPT !.game_players = Append(@, row)]
                /\ db' = update_player_stats(db, player.user_id, new_rating, kind)
                /\ call' = next
                /\ UNCHANGED outcome
           ELSE /\ txn' = [txn EXCEPT !.game_players = Append(@, row)]
                /\ call' = NoCall
                /\ outcome' = "raised"
                /\ UNCHANGED db
    /\ UNCHANGED <<games, game_players, lock, ops, last_op, before_db, balancerVars, botVars>>

\* conn.commit(), conn.close() and the return of record_game_result
RecordCommit ==
    /\ call.stage = "recording"
    /\ call.team >= Len(call.team_players)
    /\ db' = txn.players
    /\ games' = txn.games
    /\ game_players' = txn.game_players
    /\ lock' = "none"
    /\ txn' = NoTxn
    /\ call' = NoCall
    /\ outcome' = "returned"
    /\ UNCHANGED <<ops, last_op, before_db, balancerVars, botVars>>

\* the garbage collector closes the connection a raised record_game_result
\* left open: its transaction is rolled back
Collect ==
    /\ call.stage = "idle"
    /\ lock /= "none"
    /\ lock' = "none"
    /\ txn' = NoTxn
    /\ UNCHANGED <<db, games, game_players, call, outcome, ops, last_op,
                   before_db, balancerVars, botVars>>

DbNext ==
    \/ \E user_id \in DbUsers, username \in Usernames, region \in RegionArgs,
          rating \in RatingArgs :
           InsertOrUpdatePlayer(user_id, username, region, rating.mu, rating.sigma)
    \/ \E user_id \in DbUsers, rating \in RatingArgs, kind \in ResultArgs :
           UpdatePlayerStats(user_id, rating, kind)
    \/ \E id_teams \in GameTeams, w \in -1..1 : RecordGameResult(id_teams, w)
    \/ RecordParticipant
    \/ RecordCommit
    \/ Collect

SpecDb == DbInit /\ [][DbNext]_vars

(* -------------------------------- bot --------------------------------- *)
\* SpecBot runs the commands of the bot in two guilds.  A handler runs
\* without interruption up to its next await; create_teams reads the players,
\* calls the balancer and stores the teams without an await in between, so
\* no other command runs while it balances.  The waiting room of the guild
\* and the members in it are what Discord reports when the command runs.
\* the members whose wins !ts win records
WinMembers == {1, 3}

Room(members) == [exists |-> TRUE, members |-> members]
\* what a command finds: no waiting room, or one with these members
RoomStates == {NoRoom, Room(<<3>>), Room(<<2, 1>>), Room(<<1, 2, 3, 4>>)}

\* the region argument of !ts teams; "" is none
RegionWords == {"", "unknown", "atlantis"}
\* the team_number argument of the team result commands
TeamNumbers == 0..3

\* member.display_name
DisplayName(user_id) == "member"

\* members_in_room[:20]
FirstTwenty(members) == SubSeq(members, 1, Min(Len(members), RoomLimit))

RECURSIVE AutoRegistered(_, _)
\* the players table after the members of ids without a row are registered
AutoRegistered(rows, ids) ==
    IF ids = <<>> THEN rows
    ELSE AutoRegistered(IF Head(ids) \in DOMAIN rows THEN rows
                        ELSE insert_or_update_player(rows, Head(ids),
                                                     DisplayName(Head(ids)), NoRegion,
                                                     DefaultMu, DefaultSigma),
                        Tail(ids))

\* Stored that sets the entry of every guild
StoredForAll(stored, guild, partition) == [g \in Guilds |-> partition]

\* bot.current_teams after bot.current_teams[guild] = partition
Stored(stored, guild, partition) ==
    [g \in DOMAIN stored \cup {guild} |-> IF g = guild THEN partition ELSE stored[g]]

\* bot.current_teams after del bot.current_teams[guild], if guild is a key
Removed(stored, guild) == [g \in DOMAIN stored \ {guild} |-> stored[g]]

\* seq[i] of Python for an index in range, the negative ones included
PyIndex(seq, i) == IF i >= 0 THEN seq[i + 1] ELSE seq[Len(seq) + i + 1]

\* the first guard of the team result commands lets the command pass
HasTeams(stored, guild) == ~(guild \notin DOMAIN stored \/ stored[guild] = <<>>)

\* ValidTeamNumber that lets team number 0 pass
ValidTeamNumberFromZero(partition, team_number) ==
    ~(team_number < 0 \/ team_number > Len(partition))

\* the second guard of the team result commands lets the command pass
ValidTeamNumber(partition, team_number) ==
    ~(team_number < 1 \/ team_number > Len(partition))

\* trueskill.Rating()
DefaultRating == Rating(DefaultMu, DefaultSigma)

\* the rating of the player's row of the players table
CurrentRating(rows, player_data) ==
    Rating(rows[player_data.user_id].mu, rows[player_data.user_id].sigma)

\* TeamOldRating read from the player's row of the players table
TeamRatingFromRow(rows, player_data) == CurrentRating(rows, player_data)

\* old_rating of the team result commands
TeamOldRating(rows, player_data) == Rating(player_data.mu, player_data.sigma)

\* new_rating of record_team_win, record_team_loss and record_team_draw;
\* record_team_loss takes the rating rate() returns for its second group,
\* the default rating
TeamNewRating(rows, player_data, kind) ==
    CASE kind = "win" ->
             RateAgainst(TeamOldRating(rows, player_data), DefaultRating, "win")
      [] kind = "loss" ->
             RateAgainst(DefaultRating, TeamOldRating(rows, player_data), "loss")
      [] OTHER ->
             RateAgainst(TeamOldRating(rows, player_data),
                         TeamOldRating(rows, player_data), "draw")

RECURSIVE TeamRecorded(_, _, _)
\* the players table after the loop of a team result command over team
TeamRecorded(rows, team, kind) ==
    IF team = <<>> THEN rows
    ELSE TeamRecorded(update_player_stats(rows, Head(team).user_id,
                                          TeamNewRating(rows, Head(team), kind), kind),
                      Tail(team), kind)

Cmd(name, guild, room, region, team_number, kind, status) ==
    [name |-> name, guild |-> guild, room |-> room, region |-> region,
     team_number |-> team_number, kind |-> kind, status |-> status,
     partition |-> <<>>]

\* a command is invoked: no handler is between two awaits
Invoked ==
    /\ command.stage = "idle"
    /\ pc = "idle"
    /\ commands' = commands + 1
    /\ before_db' = db
    /\ before_stored' = current_teams

\* !ts teams [region] [random] up to the call of the balancer
CreateTeams(guild, room, region, rand) ==
    /\ Invoked
    /\ IF ~room.exists \/ Len(room.members) < 2
       THEN /\ last_cmd' = Cmd("teams", guild, room, region, 0, "", "failed")
            /\ UNCHANGED <<db, players, command>>
       ELSE /\ db' = AutoRegistered(db, FirstTwenty(room.members))
            /\ players' = PlayerDicts(db', FirstTwenty(room.members))
            /\ command' = [stage |-> "balancing", guild |-> guild,
                           region |-> region, rand |-> rand]
            /\ last_cmd' = Cmd("teams", guild, room, region, 0, "", "running")
    /\ UNCHANGED <<current_teams, streak, dbRest, pc, entry, result, loopVars,
                   plannerVars, attemptVars, stepVars, twinVars>>

\* the call of the balancer by create_teams
Balance ==
    /\ command.stage = "balancing"
    /\ IF command.region /= ""
       THEN BalanceTeamsWithRegion(command.region, command.rand)
       ELSE BalanceTeams(command.rand)

\* the locals of the balancer are gone
BalancerReturned ==
    /\ players' = <<>>
    /\ pc' = "idle"
    /\ entry' = NoEntry
    /\ result' = <<>>
    /\ num_teams' = 0
    /\ use_randomization' = FALSE
    /\ region_players' = <<>>
    /\ other_players' = <<>>
    /\ attempts' = 0
    /\ attempt' = 0
    /\ best_teams' = <<>>
    /\ best_variance' = Inf
    /\ first_variance' = Inf
    /\ prev_best_variance' = Inf
    /\ teams' = <<>>
    /\ improved' = FALSE
    /\ iterations' = 0
    /\ max_local_iterations' = 0
    /\ variances' = <<>>
    /\ stored_at' = -1
    /\ stored_own' = TRUE
    /\ UNCHANGED <<plannerVars, stepVars, twinVars>>

\* create_teams after the balancer has returned: an empty result ends the
\* command, any other is stored for the guild
StoreTeams ==
    /\ command.stage = "balancing"
    /\ pc = "done"
    /\ IF result = <<>>
       THEN /\ last_cmd' = [last_cmd EXCEPT !.status = "failed"]
            /\ UNCHANGED <<current_teams, streak>>
       ELSE /\ current_teams' = Stored(current_teams, command.guild, result)
            /\ last_cmd' = [last_cmd EXCEPT !.status = "done", !.partition = result]
            /\ streak' = IF streak.guild = command.guild THEN NoStreak ELSE streak
    /\ command' = NoCommand
    /\ BalancerReturned
    /\ UNCHANGED <<commands, before_stored, dbVars>>

\* !ts cleanup
CleanupTeams(guild, room) ==
    /\ Invoked
    /\ IF ~room.exists
       THEN /\ last_cmd' = Cmd("cleanup", guild, room, "", 0, "", "failed")
            /\ UNCHANGED <<current_teams, streak>>
       ELSE /\ last_cmd' = Cmd("cleanup", guild, room, "", 0, "", "done")
            /\ current_teams' = Removed(current_teams, guild)
            /\ streak' = IF streak.guild = guild THEN NoStreak ELSE streak
    /\ UNCHANGED <<db, command, dbRest, balancerVars>>

\* !ts teamwin, !ts teamloss and !ts teamdraw with team_number
RecordTeamResult(guild, kind, team_number) ==
    /\ Invoked
    /\ IF HasTeams(current_teams, guild)
             /\ ValidTeamNumber(current_teams[guild], team_number)
       THEN /\ db' = TeamRecorded(db, PyIndex(current_teams[guild], team_number - 1),
                                  kind)
            /\ last_cmd' = Cmd("team result", guild, NoRoom, "", team_number, kind, "done")
            /\ streak' = IF streak.k >= 1 /\ streak.guild = guild
                             /\ streak.team_number = team_number /\ streak.kind = kind
                      THEN [streak EXCEPT !.k = @ + 1]
                      ELSE [k |-> 1, guild |-> guild, team_number |-> team_number,
                            kind |-> kind, base |-> db, first |-> db',
                            extra |-> [u \in GuildMembers |-> 0]]
       ELSE /\ last_cmd' = Cmd("team result", guild, NoRoom, "", team_number, kind,
                               "failed")
            /\ UNCHANGED <<db, streak>>
    /\ UNCHANGED <<current_teams, command, dbRest, balancerVars>>

\* !ts win member
RecordWin(user_id) ==
    /\ Invoked
    /\ LET registered == AutoRegistered(db, <<user_id>>)
           player == get_player(registered, user_id)
       IN  db' = update_player_stats(registered, user_id,
                     RateAgainst(CurrentRating(registered, player), DefaultRating, "win"),
                     "win")
    /\ last_cmd' = Cmd("win", 0, NoRoom, "", 0, "win", "done")
    /\ streak' = IF streak.k >= 1 THEN [streak EXCEPT !.extra[user_id] = @ + 1] ELSE streak
    /\ UNCHANGED <<current_teams, command, dbRest, balancerVars>>

BotInit == DbInit

BotNext ==
    \/ /\ commands < MaxCommands
       /\ \E guild \in Guilds, room \in RoomStates, region \in RegionWords,
             rand \in BOOLEAN : CreateTeams(guild, room, region, rand)
    \/ Balance
    \/ Attempt
    \/ RegionAttempt
    \/ Return
    \/ StoreTeams
    \/ /\ commands < MaxCommands
       /\ \E guild \in Guilds, room \in RoomStates : CleanupTeams(guild, room)
    \/ /\ commands < MaxCommands
       /\ \E guild \in Guilds, kind \in StatResults, team_number \in TeamNumbers :
              RecordTeamResult(guild, kind, team_number)
    \/ /\ commands < MaxCommands
       /\ \E user_id \in WinMembers : RecordWin(user_id)

SpecBot == BotInit /\ [][BotNext]_vars

\* SpecRepeat runs !ts teams once in one guild, and the team result
\* commands and !ts win for longer than SpecBot does.
RepeatNext ==
    \/ /\ commands < MaxRepeats
       /\ current_teams = NoTeamsStored
       /\ \E rand \in BOOLEAN : CreateTeams(1, Room(<<1, 2, 3, 4>>), "", rand)
    \/ Balance
    \/ Attempt
    \/ Return
    \/ StoreTeams
    \/ /\ commands < MaxRepeats
       /\ \E kind \in StatResults, team_number \in 1..2 :
              RecordTeamResult(1, kind, team_number)
    \/ /\ commands < MaxRepeats
       /\ \E user_id \in WinMembers : RecordWin(user_id)

SpecRepeat == BotInit /\ [][RepeatNext]_vars

(* ============================== claims ================================ *)
RECURSIVE Flatten(_, _)
\* the members of partition[:n], team after team
Flatten(partition, n) ==
    IF n = 0 THEN <<>> ELSE Flatten(partition, n - 1) \o partition[n]

Occurrences(seq, x) == Cardinality({i \in 1..Len(seq) : seq[i] = x})

\* the teams hold exactly the players of the roster, each exactly once
CoversRoster(partition, roster) ==
    /\ Len(Flatten(partition, Len(partition))) = Len(roster)
    /\ \A i \in 1..Len(roster) :
           Occurrences(Flatten(partition, Len(partition)), roster[i]) = 1

\* the player's region equals the region r, compared case-insensitively
InRegion(player, r) == Lower(player.region) = Lower(r)

RegionCountOf(roster, r) == Cardinality({i \in 1..Len(roster) : InRegion(roster[i], r)})

BalancedCall == pc = "done" /\ entry.fn = "balance_teams" /\ ~entry.use_randomization

RegionCall == pc = "done" /\ entry.fn = "balance_teams_with_region"

\* C1 as stated: balance_teams in balanced mode returns teams that hold exactly
\* the n >= 2 players of the roster, each exactly once, for any n.
C1_CompleteForAnyRoster ==
    (BalancedCall /\ Len(players) >= 2) => CoversRoster(result, players)

\* C1 amended: balance_teams in balanced mode returns teams that hold exactly
\* the n players of the roster, each exactly once, for 2 <= n <= 20; of a larger
\* roster it places 20 players (5 teams of 4) and leaves the others out.
C1_CompleteUpToTwenty ==
    /\ (BalancedCall /\ Len(players) >= 2 /\ Len(players) <= 20)
           => CoversRoster(result, players)
    /\ (BalancedCall /\ Len(players) > 20)
           => Len(Flatten(result, Len(result))) = 20

C1_Witness ==
    /\ BalancedCall
    /\ Len(players) = 20
    /\ Len(result) = 5
    /\ CoversRoster(result, players)

\* C2: balance_teams_with_region (balanced or random) on n >= 2 players of
\* which at least one is a region player returns teams that hold exactly the n
\* players, each exactly once, whatever the number of region players.
C2_RegionComplete ==
    (RegionCall /\ Len(players) >= 2
        /\ RegionCountOf(players, entry.required_region) >= 1)
    => CoversRoster(result, players)

\* C3: every team of a partition returned by any of the six functions has
\* between 1 and 4 members.
C3_SizeBounds ==
    pc = "done" => \A t \in 1..Len(result) : Len(result[t]) >= 1 /\ Len(result[t]) <= 4

C3_Witness ==
    /\ pc = "done"
    /\ entry.fn = "generate_random_teams"
    /\ entry.num_teams = 1
    /\ Len(players) = 5
    /\ Len(result) = 1
    /\ Len(result[1]) = 4

\* C4: every team of a result of balance_teams_with_region has a player whose
\* region equals required_region, compared case-insensitively.
C4_RegionInvariant ==
    RegionCall =>
        \A t \in 1..Len(result) :
            \E q \in 1..Len(result[t]) : InRegion(result[t][q], entry.required_region)

C4_Witness ==
    /\ RegionCall
    /\ Len(result) = 2
    /\ \E t \in 1..Len(result) :
           /\ \E q \in 1..Len(result[t]) : InRegion(result[t][q], entry.required_region)
           /\ \A q \in 1..Len(result[t]) : result[t][q].region /= entry.required_region

AdapterCall ==
    /\ pc = "done"
    /\ entry.fn \in {"generate_optimal_teams_with_region",
                    "generate_random_teams_with_region"}

\* C5 amended: generate_optimal_teams_with_region and
\* generate_random_teams_with_region, called with
\* 1 <= num_teams <= len(region_players), return only teams that hold a region
\* player; with more teams than region players only len(region_players) teams
\* are given one.
C5_AdapterSeeded ==
    (AdapterCall /\ entry.num_teams >= 1
        /\ entry.num_teams <= RegionCountOf(players, entry.required_region))
    => /\ Len(result) = entry.num_teams
       /\ \A t \in 1..Len(result) :
              \E q \in 1..Len(result[t]) : InRegion(result[t][q], entry.required_region)

C5_Witness ==
    /\ AdapterCall
    /\ entry.fn = "generate_optimal_teams_with_region"
    /\ entry.num_teams = 2
    /\ RegionCountOf(players, entry.required_region) = 2
    /\ Len(players) = 5
    /\ Len(result) = 2
    /\ \A t \in 1..2 : \E q \in 1..Len(result[t]) : InRegion(result[t][q], entry.required_region)

\* C5 as stated: generate_optimal_teams_with_region and
\* generate_random_teams_with_region, called with num_teams >= 1 and at least
\* one region player, return only teams that hold a region player, also when
\* num_teams > len(region_players).
C5_AdapterRegionGuarantee ==
    (/\ pc = "done"
     /\ entry.fn \in {"generate_optimal_teams_with_region",
                     "generate_random_teams_with_region"}
     /\ entry.num_teams >= 1
     /\ RegionCountOf(players, entry.required_region) >= 1)
    => \A t \in 1..Len(result) :
           \E q \in 1..Len(result[t]) : InRegion(result[t][q], entry.required_region)

\* C6: balance_teams on a roster of fewer than 2 players and
\* balance_teams_with_region on a roster without a region player return the
\* empty list, in both modes.
C6_InfeasibleReturnsEmpty ==
    (\/ entry.fn = "balance_teams" /\ Len(players) < 2
     \/ entry.fn = "balance_teams_with_region"
            /\ RegionCountOf(players, entry.required_region) = 0)
    => (pc = "done" /\ result = <<>>)

C6_Witness ==
    /\ pc = "done"
    /\ entry.fn = "balance_teams_with_region"
    /\ entry.required_region = "Atlantis"
    /\ entry.use_randomization
    /\ Len(players) >= 2
    /\ result = <<>>

PlannerCall(fn) == pc = "planned" /\ entry.fn = fn

\* C7 as stated: calculate_optimal_teams gives 3 teams for 6 players, 2 for 8,
\* 3 for 12, 4 for 16 and 5 for 20.
C7_PlannerExamples ==
    PlannerCall("calculate_optimal_teams") =>
        /\ total_players = 6 => final_teams = 3
        /\ total_players = 8 => final_teams = 2
        /\ total_players = 12 => final_teams = 3
        /\ total_players = 16 => final_teams = 4
        /\ total_players = 20 => final_teams = 5

\* C7 amended: calculate_optimal_teams gives 2 teams for 6 players, 2 for 8,
\* 3 for 12, 4 for 16 and 5 for 20.
C7_PlannerExamplesAmended ==
    PlannerCall("calculate_optimal_teams") =>
        /\ total_players = 6 => final_teams = 2
        /\ total_players = 8 => final_teams = 2
        /\ total_players = 12 => final_teams = 3
        /\ total_players = 16 => final_teams = 4
        /\ total_players = 20 => final_teams = 5

C7_Witness ==
    /\ PlannerCall("calculate_optimal_teams")
    /\ total_players = 6
    /\ final_teams = 2

\* C8: calculate_optimal_teams returns 1 for total_players <= 3, 2 for 4..8,
\* 3 for 9..12, 4 for 13..16 and 5 otherwise; the result is in 1..5.
C8_PlannerBuckets ==
    PlannerCall("calculate_optimal_teams") =>
        /\ total_players <= 3 => final_teams = 1
        /\ (total_players >= 4 /\ total_players <= 8) => final_teams = 2
        /\ (total_players >= 9 /\ total_players <= 12) => final_teams = 3
        /\ (total_players >= 13 /\ total_players <= 16) => final_teams = 4
        /\ total_players >= 17 => final_teams = 5
        /\ final_teams \in 1..5

C8_Witness ==
    /\ PlannerCall("calculate_optimal_teams")
    /\ total_players = 21
    /\ final_teams = 5

\* C9: for n >= 2 players of which r >= 1 are region players, the team count
\* of balance_teams_with_region is min(calculate_optimal_teams(n), r, 5), and
\* never more than r.
C9_RegionTeamCount ==
    PlannerCall("balance_teams_with_region") =>
        /\ final_teams = Min(Min(calculate_optimal_teams(total_players), region_count), 5)
        /\ final_teams <= region_count

C9_Witness ==
    /\ PlannerCall("balance_teams_with_region")
    /\ total_players = 3
    /\ region_count = 2
    /\ final_teams = 1

\* C10 as stated: best_variance never increases from one attempt to the next,
\* and the variance of the returned partition is <= the final variance of the
\* first attempt.
C10_MonotonicReturned ==
    /\ LessEq(best_variance, prev_best_variance)
    /\ (pc = "done" /\ attempt >= 1)
           => LessEq(calculate_variance(result), first_variance)

\* C10 amended: best_variance never increases from one attempt to the next,
\* and the variance of best_teams, which counts a team left empty as average
\* 0, is <= the final variance of the first attempt; the returned partition has
\* that variance when no team of best_teams was empty.
C10_MonotonicBest ==
    /\ LessEq(best_variance, prev_best_variance)
    /\ attempt >= 1 =>
           /\ best_variance = calculate_variance(best_teams)
           /\ LessEq(calculate_variance(best_teams), first_variance)
    /\ (pc = "done" /\ attempt >= 1 /\ Len(result) = Len(best_teams))
           => LessEq(calculate_variance(result), first_variance)

C10_Witness ==
    /\ pc = "done"
    /\ attempt = 2
    /\ Len(result) = Len(best_teams)
    /\ Less(best_variance, first_variance)
    /\ Less(calculate_variance(result), first_variance)

\* the partition of the sorted snake draft, without swaps
NaiveSplit(roster, k) == Draft(SortDesc(roster), 0, EmptyTeams(k), TRUE)

\* C11: balancing the 8 players of skills 30, 28, ..., 16 in balanced mode gives
\* exactly two teams of 4 whose variance is <= the variance of the sorted snake
\* draft without swaps, and is 0: each team's skills sum to 92.
C11_Scenario ==
    BalancedCall =>
        /\ Len(result) = 2
        /\ \A t \in 1..Len(result) :
               Len(result[t]) = 4 /\ SumSkill(result[t], Len(result[t])) = 92
        /\ LessEq(calculate_variance(result), calculate_variance(NaiveSplit(players, 2)))
        /\ calculate_variance(result).num = 0

C11_Witness ==
    /\ BalancedCall
    /\ attempt = 2
    /\ Len(result) = 2
    /\ {get_player_skill(result[1][q]) : q \in 1..Len(result[1])} = {30, 24, 22, 16}
    /\ {get_player_skill(result[2][q]) : q \in 1..Len(result[2])} = {28, 26, 20, 18}
    /\ \E q \in 1..4 : result[1][q].sigma > 0

RandomCall == pc = "done" /\ entry.fn = "generate_random_teams"

\* C12: generate_random_teams(players, k) with n >= 2 players and k >= 1 never
\* returns a team of more than 4 members, and when n >= k it returns exactly k
\* teams, none of them empty, whatever the shuffle gives.
C12_RandomMode ==
    (RandomCall /\ Len(players) >= 2 /\ entry.num_teams >= 1) =>
        /\ \A t \in 1..Len(result) : Len(result[t]) <= 4
        /\ Len(players) >= entry.num_teams =>
               /\ Len(result) = entry.num_teams
               /\ \A t \in 1..Len(result) : Len(result[t]) >= 1

C12_Witness ==
    /\ RandomCall
    /\ Len(players) = 5
    /\ entry.num_teams = 3
    /\ Len(result) = 3
    /\ result[1][1].user_id /= players[1].user_id
    /\ \A t \in 1..3 : Len(result[t]) >= 1

BalanceCall == pc = "done" /\ entry.fn \in {"balance_teams", "balance_teams_with_region"}

\* C13: every player of a partition returned by balance_teams or
\* balance_teams_with_region, in either mode and for every roster size, is a
\* player of the input roster and occurs in one team only, once.
C13_NoDuplicatesNoStrangers ==
    BalanceCall =>
        \A i \in 1..Len(Flatten(result, Len(result))) :
            /\ \E m \in 1..Len(players) : players[m] = Flatten(result, Len(result))[i]
            /\ Occurrences(Flatten(result, Len(result)), Flatten(result, Len(result))[i]) = 1

C13_Witness ==
    /\ BalanceCall
    /\ entry.fn = "balance_teams_with_region"
    /\ Len(players) = 21
    /\ Len(result) = 5
    /\ Len(Flatten(result, Len(result))) = 20

OptimalCall == pc = "done" /\ entry.fn = "generate_optimal_teams"

\* C14 as stated: generate_optimal_teams returns the empty partition only when
\* len(players) < 2 or num_teams < 1, and a non-empty partition for every n >= 2
\* and num_teams >= 1, whatever max_iterations is.
C14_EmptyOnlyIfInfeasible ==
    OptimalCall =>
        (result = <<>> <=> (Len(players) < 2 \/ entry.num_teams < 1))

\* C14 amended: generate_optimal_teams returns the empty partition exactly when
\* len(players) < 2, num_teams < 1 or max_iterations <= 0 (no attempt runs), and
\* a non-empty partition for every n >= 2, num_teams >= 1 and max_iterations >= 1.
C14_EmptyIffNoAttempt ==
    OptimalCall =>
        (result = <<>> <=>
            (Len(players) < 2 \/ entry.num_teams < 1 \/ entry.max_iterations <= 0))

C14_Witness ==
    /\ OptimalCall
    /\ Len(players) >= 2
    /\ entry.num_teams >= 1
    /\ entry.max_iterations = 1
    /\ attempt = 1
    /\ result /= <<>>

\* the attempt loop of generate_optimal_teams was reached
OptimalLoop ==
    /\ entry.fn \in {"generate_optimal_teams", "balance_teams"}
    /\ pc \in {"optimizing", "done"}
    /\ num_teams >= 1

\* the attempt loop of generate_optimal_teams_with_region was reached
RegionLoop ==
    /\ entry.fn \in {"generate_optimal_teams_with_region", "balance_teams_with_region"}
    /\ pc \in {"region_optimizing", "done"}
    /\ num_teams >= 1

\* len(all_remaining) of generate_optimal_teams_with_region
RemainingPool ==
    Max(0, Len(region_players) - num_teams) + Len(other_players)

\* C15: generate_optimal_teams runs at most min(max_iterations, 1000 if n <= 12
\* else 500) attempts of at most 200 (n <= 8) or 100 passes each,
\* generate_optimal_teams_with_region at most 200 (n <= 12) or 100 attempts of
\* at most 150 (remaining pool <= 8) or 75 passes each; a pass loop that ends
\* under its budget ends on a pass that accepted no swap.
C15_Bounds ==
    /\ OptimalLoop =>
           /\ attempts = Min(entry.max_iterations, IF Len(players) <= 12 THEN 1000 ELSE 500)
           /\ attempt <= Max(0, attempts)
           /\ iterations <= (IF Len(players) <= 8 THEN 200 ELSE 100)
           /\ attempt >= 1 =>
                  (~improved \/ iterations = (IF Len(players) <= 8 THEN 200 ELSE 100))
    /\ RegionLoop =>
           /\ attempts = (IF Len(region_players) + Len(other_players) <= 12
                          THEN 200 ELSE 100)
           /\ attempt <= attempts
           /\ iterations <= (IF RemainingPool <= 8 THEN 150 ELSE 75)
           /\ attempt >= 1 =>
                  (~improved \/ iterations = (IF RemainingPool <= 8 THEN 150 ELSE 75))

C15_Witness ==
    /\ OptimalLoop
    /\ pc = "done"
    /\ entry.fn = "generate_optimal_teams"
    /\ entry.max_iterations = 1
    /\ attempt = 1
    /\ Len(players) > 12
    /\ max_local_iterations = 100
    /\ iterations >= 2
    /\ ~improved

\* C20: best_teams is replaced only by an attempt whose final variance is
\* strictly lower than best_variance, never by one that ties: best_teams is the
\* partition of the earliest attempt that reached the lowest final variance so
\* far, and the partition returned is that one.
C20_FirstFound ==
    /\ attempt >= 1 =>
           /\ stored_at >= 0
           /\ stored_at < attempt
           /\ best_variance = variances[stored_at + 1]
           /\ best_variance = calculate_variance(best_teams)
           /\ stored_own
           /\ \A b \in 1..stored_at : Less(best_variance, variances[b])
           /\ \A b \in 1..Len(variances) : LessEq(best_variance, variances[b])
    /\ (pc = "done" /\ attempt >= 1) => result = NonEmptyTeams(best_teams)

C20_Witness ==
    /\ pc = "done"
    /\ attempt = 2
    /\ variances[1] = variances[2]
    /\ Len(players) = 5
    /\ num_teams = 2
    /\ stored_at = 0
    /\ result = best_teams

\* the attempt has run a trial swap
Tried == last_trial.i >= 1

\* the partition before the last trial swap with the two members exchanged
Exchanged(partition, t) ==
    [x \in 1..Len(partition) |->
        [q \in 1..Len(partition[x]) |->
            IF x = t.i /\ q = t.p1 THEN partition[t.j][t.p2]
            ELSE IF x = t.j /\ q = t.p2 THEN partition[t.i][t.p1]
            ELSE partition[x][q]]]

\* the two partitions hold the same members at the same places
SamePartition(a, b) ==
    /\ Len(a) = Len(b)
    /\ \A x \in 1..Len(a) :
           /\ Len(a[x]) = Len(b[x])
           /\ \A q \in 1..Len(a[x]) : a[x][q] = b[x][q]

\* C16: a trial swap exchanges one member of team i with one of team j, i < j,
\* and leaves the team sizes and the placed players as they were; the exchange
\* is kept iff the new variance is strictly lower than current_variance, and
\* otherwise the partition is the one before the trial.
C16_SwapRule ==
    Tried =>
        /\ last_trial.i < last_trial.j
        /\ \A x \in 1..Len(teams) : Len(teams[x]) = Len(before_teams[x])
        /\ \A m \in 1..Len(players) :
               Occurrences(Flatten(teams, Len(teams)), players[m])
                   = Occurrences(Flatten(before_teams, Len(before_teams)), players[m])
        /\ IF Less(calculate_variance(Exchanged(before_teams, last_trial)), before_variance)
           THEN /\ SamePartition(teams, Exchanged(before_teams, last_trial))
                /\ current_variance = calculate_variance(teams)
           ELSE /\ SamePartition(teams, before_teams)
                /\ current_variance = before_variance

C16_Witness ==
    /\ Tried
    /\ pc = "swapping"
    /\ ~SamePartition(teams, before_teams)
    /\ Less(current_variance, before_variance)
    /\ first = 2

\* C17: within an attempt the variance of the working partition never goes up:
\* after every trial swap it is <= its value before the trial, and from the
\* draft on it is <= the variance of the drafted partition.
C17_VarianceNeverIncreases ==
    /\ Tried => LessEq(calculate_variance(teams), calculate_variance(before_teams))
    /\ pc \in {"searching", "swapping", "searched"}
           => LessEq(calculate_variance(teams), initial_variance)

C17_Witness ==
    /\ pc = "searched"
    /\ iterations >= 2
    /\ Less(calculate_variance(teams), initial_variance)
    /\ SamePartition(teams, before_teams)

\* C18: when the pass loop ends on a pass that accepted no swap, no exchange of
\* a member of team i with a member of team j, i /= j (in region mode both at
\* index >= 1), gives a strictly lower variance than the final partition.
C18_LocalOptimum ==
    (pc = "searched" /\ ~improved) =>
        \A x \in 1..Len(teams), y \in 1..Len(teams) :
            x /= y =>
                \A q1 \in first..Len(teams[x]), q2 \in first..Len(teams[y]) :
                    ~Less(calculate_variance(
                              Exchanged(teams, [i |-> x, p1 |-> q1, j |-> y, p2 |-> q2])),
                          calculate_variance(teams))

C18_Witness ==
    /\ pc = "searched"
    /\ ~improved
    /\ iterations >= 2
    /\ Len(teams) = 2
    /\ \A x \in 1..Len(teams) : Len(teams[x]) >= 2
    /\ calculate_variance(teams).num > 0

\* C19: in generate_optimal_teams the player at position i of the seed ordering
\* is offered to team i mod k when floor(i / k) is even and to team
\* k - 1 - (i mod k) when it is odd, and is appended only if that team has fewer
\* than 4 members; the seed ordering of the first attempt without randomization
\* is the roster in descending order of conservative skill; after the draft the
\* team sizes differ by at most 1.
C19_SnakeDraft ==
    entry.fn = "generate_optimal_teams" =>
        /\ (pc = "drafting" /\ drafted >= 1) =>
               /\ team_idx = IF ((drafted - 1) \div num_teams) % 2 = 0
                             THEN (drafted - 1) % num_teams
                             ELSE num_teams - 1 - ((drafted - 1) % num_teams)
               /\ IF Len(before_teams[team_idx + 1]) < 4
                  THEN SamePartition(teams,
                           [before_teams EXCEPT
                                ![team_idx + 1] = Append(@, player_list[drafted])])
                  ELSE SamePartition(teams, before_teams)
        /\ (pc = "drafting" /\ attempt = 0 /\ ~use_randomization) =>
               /\ Len(player_list) = Len(players)
               /\ \A m \in 1..Len(players) : Occurrences(player_list, players[m]) = 1
               /\ \A a \in 1..Len(player_list), b \in 1..Len(player_list) :
                      a < b =>
                          \/ get_player_skill(player_list[a]) > get_player_skill(player_list[b])
                          \/ /\ get_player_skill(player_list[a])
                                    = get_player_skill(player_list[b])
                             /\ player_list[a].user_id < player_list[b].user_id
        /\ (pc \in {"searching", "swapping", "searched"}
                \/ (pc = "drafting" /\ drafted = Len(player_list))) =>
               \A x \in 1..Len(teams), y \in 1..Len(teams) :
                   Len(teams[x]) - Len(teams[y]) <= 1

C19_Witness ==
    /\ entry.fn = "generate_optimal_teams"
    /\ pc = "drafting"
    /\ attempt = 0
    /\ ~use_randomization
    /\ num_teams = 2
    /\ drafted = 4
    /\ team_idx = 0
    /\ Len(teams[1]) = 2
    /\ Len(teams[2]) = 2

\* an attempt of generate_optimal_teams_with_region is past its seeding
RegionSearch ==
    /\ entry.fn = "generate_optimal_teams_with_region"
    /\ pc \in {"drafting", "searching", "swapping", "searched"}

\* C21: in an attempt of generate_optimal_teams_with_region every team that got
\* a region seed holds, at index 0, a player of region_players, and the same
\* player stays at index 0 of that team through the draft, after every trial
\* swap and at the end of the attempt; a trial swap touches only indices >= 1
\* (2.. here, 1-based) of two teams that both have more than one member.
C21_ReservedSeat ==
    RegionSearch =>
        /\ Len(seeded) = num_teams
        /\ Len(teams) = num_teams
        /\ \A x \in 1..Len(seeded) :
               /\ Len(seeded[x]) = (IF x <= Len(region_players) THEN 1 ELSE 0)
               /\ Len(seeded[x]) = 1 =>
                      /\ \E m \in 1..Len(region_players) : region_players[m] = seeded[x][1]
                      /\ Len(teams[x]) >= 1
                      /\ teams[x][1] = seeded[x][1]
        /\ Tried =>
               /\ last_trial.p1 >= 2
               /\ last_trial.p2 >= 2
               /\ Len(before_teams[last_trial.i]) >= 2
               /\ Len(before_teams[last_trial.j]) >= 2
               /\ \A x \in 1..Len(teams) :
                      Len(before_teams[x]) >= 1 => teams[x][1] = before_teams[x][1]

C21_Witness ==
    /\ RegionSearch
    /\ pc = "searched"
    /\ Tried
    /\ iterations >= 2
    /\ Less(calculate_variance(teams), initial_variance)
    /\ num_teams = 2
    /\ Len(seeded[1]) = 1
    /\ Len(seeded[2]) = 1
    /\ teams[1][1] = seeded[1][1]
    /\ teams[2][1] = seeded[2][1]

\* the ids of the members of the teams, team by team
Members(partition) ==
    [t \in 1..Len(partition) |-> [q \in 1..Len(partition[t]) |-> partition[t][q].user_id]]

TwinCall ==
    /\ pc = "done"
    /\ entry.fn = "balance_teams"
    /\ entry.use_randomization
    /\ Len(twin_players) = Len(players)
    /\ Len(shuffle_outcome) = Len(players)

\* C22: balance_teams in random mode on two rosters that hold the same players
\* in the same order and differ in mu and sigma only gives, under the same
\* outcome of random.shuffle, the same number of teams with the same members at
\* the same places.
C22_IgnoresSkill ==
    TwinCall =>
        /\ Len(result) = Len(twin_result)
        /\ \A t \in 1..Len(result) :
               /\ Len(result[t]) = Len(twin_result[t])
               /\ \A q \in 1..Len(result[t]) :
                      result[t][q].user_id = twin_result[t][q].user_id
        /\ \A t \in 1..Len(result) : \A q \in 1..Len(result[t]) :
               \E m \in 1..Len(players) :
                   result[t][q] = players[m] /\ twin_result[t][q] = twin_players[m]

C22_Witness ==
    /\ TwinCall
    /\ Len(players) = 5
    /\ Len(result) = 2
    /\ shuffle_outcome[1] /= 1
    /\ Members(result) = Members(twin_result)
    /\ Members(<<SortDesc(players)>>) /= Members(<<SortDesc(twin_players)>>)
    /\ result[1][1].mu /= twin_result[1][1].mu

\* The partitions generate_random_teams can return are the ones RandomTeamsBy
\* gives under some outcome of the shuffle.
RandomByAgrees ==
    /\ (RandomCall /\ Len(twin_players) = 0) =>
           \E perm \in Perms(Identity(Len(players))) :
               result = RandomTeamsBy(players, entry.num_teams, perm)
    /\ (TwinCall /\ Len(players) >= 2) =>
           result \in generate_random_teams(players, BalanceTeamCount(Len(players)))

\* balance_teams in balanced mode is running or has returned
BalancedRun ==
    /\ entry.fn = "balance_teams"
    /\ ~entry.use_randomization
    /\ pc \in {"optimizing", "done"}

\* C23: for 2 <= n <= 7 players balance_teams in balanced mode is deterministic:
\* the tier shuffle of a later attempt leaves the sorted order as it is, every
\* attempt ends with the same variance, the partition stored is the one of the
\* first attempt, from the sorted order, and that partition is returned.
C23_SmallDeterministic ==
    (BalancedRun /\ Len(players) >= 2 /\ Len(players) <= 7) =>
        /\ Max(1, Len(players) \div 4) = 1
        /\ SeedOrderings(players, 1, FALSE) = {SortDesc(players)}
        /\ \A b \in 1..Len(variances) : variances[b] = variances[1]
        /\ attempt >= 1 =>
               /\ stored_at = 0
               /\ best_teams = OptimalAttempt(SortDesc(players), num_teams)
        /\ pc = "done" =>
               result = NonEmptyTeams(OptimalAttempt(SortDesc(players),
                                                     BalanceTeamCount(Len(players))))

C23_Witness ==
    /\ BalancedRun
    /\ pc = "done"
    /\ Len(players) = 7
    /\ attempt = 2
    /\ Len(variances) = 2
    /\ variances[1] = variances[2]
    /\ Len(result) = 2
    /\ calculate_variance(result).num > 0
    /\ SortDesc(players) /= players

\* balance_teams has returned, in either mode
BalanceTeamsCall == pc = "done" /\ entry.fn = "balance_teams"

\* C24: for 2 <= n <= 20 players every team balance_teams returns, in balanced
\* or in random mode, has 2, 3 or 4 members, and the sizes of any two returned
\* teams differ by at most 1.
C24_FloorOfTwo ==
    (BalanceTeamsCall /\ Len(players) >= 2 /\ Len(players) <= 20) =>
        /\ Len(result) >= 1
        /\ \A t \in 1..Len(result) : Len(result[t]) >= 2 /\ Len(result[t]) <= 4
        /\ \A t \in 1..Len(result), u \in 1..Len(result) :
               Len(result[t]) - Len(result[u]) <= 1

C24_Witness ==
    /\ BalanceTeamsCall
    /\ ~entry.use_randomization
    /\ Len(players) = 13
    /\ attempt = 2
    /\ Len(result) = 4
    /\ \E t \in 1..4 : Len(result[t]) = 4
    /\ \E t \in 1..4 : Len(result[t]) = 3

Consistent(row) == row.games_played = row.wins + row.losses + row.draws

\* C26: starting from an empty database, after any sequence of
\* insert_or_update_player, update_player_stats (with any result string) and
\* record_game_result calls, every player row has
\* games_played = wins + losses + draws, committed or written by the running
\* record_game_result; and insert_or_update_player leaves the four counters of
\* a player that had a row as they were.
C26_StatsConsistent ==
    /\ \A u \in DOMAIN db : Consistent(db[u])
    /\ \A u \in DOMAIN txn.players : Consistent(txn.players[u])
    /\ (last_op.fn = "insert_or_update_player" /\ last_op.user_id \in DOMAIN before_db) =>
           /\ last_op.user_id \in DOMAIN db
           /\ db[last_op.user_id].games_played = before_db[last_op.user_id].games_played
           /\ db[last_op.user_id].wins = before_db[last_op.user_id].wins
           /\ db[last_op.user_id].losses = before_db[last_op.user_id].losses
           /\ db[last_op.user_id].draws = before_db[last_op.user_id].draws

\* insert_or_update_player has rewritten the rating of a player who has
\* played a drawn game of record_game_result and another game
C26_Witness ==
    /\ last_op.fn = "insert_or_update_player"
    /\ outcome = "returned"
    /\ last_op.user_id \in DOMAIN before_db
    /\ before_db[last_op.user_id].games_played >= 2
    /\ before_db[last_op.user_id].draws >= 1
    /\ games >= 1
    /\ db[last_op.user_id].mu /= before_db[last_op.user_id].mu

\* the participants of the last record_game_result call
Participants == Concat(last_op.teams)

\* the last call was record_game_result with a decisive outcome on a database
\* no other connection had locked, and it has ended
DecisiveCall ==
    /\ last_op.fn = "record_game_result"
    /\ last_op.winning_team_index >= 0
    /\ ~last_op.locked
    /\ call.stage = "idle"

\* C30: record_game_result with a decisive outcome (winning_team_index >= 0)
\* returns, having inserted one games row and one game_players row per
\* participant and having updated every participant once: games_played + 1,
\* wins + 1 in the winning team and losses + 1 in every other team.
C30_DecisiveRecorded ==
    DecisiveCall =>
        /\ outcome = "returned"
        /\ games = last_op.games + 1
        /\ Len(game_players) = last_op.game_players + Len(Participants)
        /\ \A t \in 1..Len(last_op.teams) : \A m \in 1..Len(last_op.teams[t]) :
               LET u == last_op.teams[t][m]
                   was == IF u \in DOMAIN before_db THEN before_db[u]
                          ELSE PlayerRow("", "", 0, 0)
                   won == t - 1 = last_op.winning_team_index
               IN  /\ u \in DOMAIN db
                   /\ db[u].games_played = was.games_played + 1
                   /\ db[u].wins = was.wins + (IF won THEN 1 ELSE 0)
                   /\ db[u].losses = was.losses + (IF won THEN 0 ELSE 1)
                   /\ db[u].draws = was.draws

\* what record_game_result with a decisive outcome does instead: the first
\* update_player_stats raises, and no games row, no game_players row and no
\* change of a participant's statistics is committed
DecisiveRaises ==
    DecisiveCall =>
        /\ outcome = "raised"
        /\ games = last_op.games
        /\ Len(game_players) = last_op.game_players
        /\ \A u \in DOMAIN before_db : db[u] = before_db[u]
        /\ \A u \in DOMAIN db \ DOMAIN before_db : db[u].games_played = 0

\* a drawn record_game_result returns with the game recorded
DrawRecorded ==
    (last_op.fn = "record_game_result" /\ last_op.winning_team_index = -1
         /\ ~last_op.locked /\ call.stage = "idle") =>
        /\ outcome = "returned"
        /\ games = last_op.games + 1
        /\ Len(game_players) = last_op.game_players + Len(Participants)

\* the user ids of the players of a team
TeamIds(team) == {team[m].user_id : m \in 1..Len(team)}

\* the last command was !ts teamwin, !ts teamloss or !ts teamdraw
TeamResultCall == last_cmd.name = "team result"

\* the guild of the last command had a non-empty stored team list and the
\* team number of the command was one of its teams
TeamResultGuard ==
    /\ last_cmd.guild \in DOMAIN before_stored
    /\ before_stored[last_cmd.guild] /= <<>>
    /\ 1 <= last_cmd.team_number
    /\ last_cmd.team_number <= Len(before_stored[last_cmd.guild])

\* the counters of row are those of was, with one more game of the kind
OneMore(row, was, kind) ==
    /\ row.games_played = was.games_played + 1
    /\ row.wins = was.wins + (IF kind = "win" THEN 1 ELSE 0)
    /\ row.losses = was.losses + (IF kind = "loss" THEN 1 ELSE 0)
    /\ row.draws = was.draws + (IF kind = "draw" THEN 1 ELSE 0)

\* C27: !ts teamwin|teamloss|teamdraw N changes rows of the players table
\* only if the guild has a non-empty stored team list and 1 <= N <= number of
\* stored teams; then the members of team N, and no others, get games_played
\* and the matching counter incremented by one, and no other player's row
\* changes; otherwise no row changes.
C27_TeamResultsGuarded ==
    TeamResultCall =>
        /\ DOMAIN db = DOMAIN before_db
        /\ IF TeamResultGuard
           THEN LET team == before_stored[last_cmd.guild][last_cmd.team_number]
                IN  /\ TeamIds(team) \subseteq DOMAIN db
                    /\ \A u \in DOMAIN db :
                           IF u \in TeamIds(team)
                           THEN OneMore(db[u], before_db[u], last_cmd.kind)
                           ELSE db[u] = before_db[u]
           ELSE db = before_db

\* !ts teamloss 2 has run in guild 2 on two stored teams, and a player of
\* the other team has a row
C27_Witness ==
    /\ TeamResultCall
    /\ TeamResultGuard
    /\ last_cmd.guild = 2
    /\ last_cmd.kind = "loss"
    /\ last_cmd.team_number = 2
    /\ Len(before_stored[2]) = 2
    /\ db /= before_db
    /\ \E u \in DOMAIN db : u \notin TeamIds(before_stored[2][2]) /\ db[u] = before_db[u]

\* the entries of the guilds other than guild are what they were
OthersKept(guild) ==
    \A h \in Guilds \ {guild} :
        /\ h \in DOMAIN current_teams <=> h \in DOMAIN before_stored
        /\ h \in DOMAIN current_teams => current_teams[h] = before_stored[h]

\* the last command was !ts teams and it has ended
TeamsCall == last_cmd.name = "teams" /\ command.stage = "idle"

\* the players of the waiting room of the last command were read, and none
\* of them is of the region of the command
RegionInfeasible ==
    /\ last_cmd.room.exists
    /\ Len(last_cmd.room.members) >= 2
    /\ last_cmd.region /= ""
    /\ \A m \in 1..Len(last_cmd.room.members) :
           Lower(db[last_cmd.room.members[m]].region) /= Lower(last_cmd.region)

\* the last !ts teams failed for one of the four reasons
TeamsFailed ==
    \/ ~last_cmd.room.exists
    \/ Len(last_cmd.room.members) < 2
    \/ RegionInfeasible
    \/ last_cmd.partition = <<>>

\* C28: a !ts teams invocation that fails (no Waiting Room channel, fewer
\* than 2 members, region infeasible, or empty balancing result) leaves
\* bot.current_teams as it was; a successful one in guild G sets
\* current_teams[G] to the new partition, whose players are members of the
\* waiting room, and changes no other guild's entry; nothing is stored while
\* the balancer runs; !ts cleanup changes no other guild's entry and, with a
\* waiting room, leaves the invoking guild without one.
C28_StoredPerGuild ==
    /\ (last_cmd.name = "teams" /\ command.stage = "balancing") =>
           current_teams = before_stored
    /\ TeamsCall =>
           IF TeamsFailed
           THEN current_teams = before_stored
           ELSE /\ last_cmd.guild \in DOMAIN current_teams
                /\ current_teams[last_cmd.guild] = last_cmd.partition
                /\ TeamIds(Concat(last_cmd.partition)) \subseteq
                       {last_cmd.room.members[m] : m \in 1..Len(last_cmd.room.members)}
                /\ OthersKept(last_cmd.guild)
    /\ last_cmd.name = "cleanup" =>
           /\ OthersKept(last_cmd.guild)
           /\ IF last_cmd.room.exists
              THEN last_cmd.guild \notin DOMAIN current_teams
              ELSE current_teams = before_stored

\* !ts teams atlantis has failed in a guild with four members in the waiting
\* room and stored teams, which are still stored
C28_Witness ==
    /\ TeamsCall
    /\ RegionInfeasible
    /\ Len(last_cmd.room.members) = 4
    /\ last_cmd.guild \in DOMAIN current_teams
    /\ Len(current_teams[last_cmd.guild]) = 2

\* a successful !ts teams has stored two teams in one guild and left the
\* teams of the other guild
TeamsStoredBeside ==
    /\ TeamsCall
    /\ ~TeamsFailed
    /\ DOMAIN current_teams = Guilds
    /\ current_teams[1] /= current_teams[2]

\* !ts cleanup has removed the teams of its guild
CleanedUp ==
    /\ last_cmd.name = "cleanup"
    /\ last_cmd.guild \in DOMAIN before_stored
    /\ last_cmd.guild \notin DOMAIN current_teams

\* the last command repeated the team result command of the streak
Repeated ==
    /\ TeamResultCall
    /\ streak.k >= 1
    /\ last_cmd.guild = streak.guild
    /\ last_cmd.team_number = streak.team_number
    /\ last_cmd.kind = streak.kind

\* the rating the team result command of the given kind computes from the
\* mu and sigma of a stored player record
FromSnapshot(p, kind) ==
    CASE kind = "win" -> RateAgainst(Rating(p.mu, p.sigma), DefaultRating, "win")
      [] kind = "loss" -> RateAgainst(DefaultRating, Rating(p.mu, p.sigma), "loss")
      [] OTHER -> RateAgainst(Rating(p.mu, p.sigma), Rating(p.mu, p.sigma), "draw")

\* C29: after !ts teams, when the same team result command has been invoked
\* k >= 1 times on one team, every member's mu and sigma in the database are
\* the rating computed from the mu and sigma of the stored player record,
\* which is the value after the first invocation, whatever !ts win has
\* recorded for the member in between; games_played and the matching counter
\* have grown by k, and by one more for every such !ts win.
C29_SnapshotRatings ==
    Repeated =>
        LET team == current_teams[streak.guild][streak.team_number]
        IN  \A m \in 1..Len(team) :
                LET u == team[m].user_id
                    between == streak.extra[u]
                IN  /\ db[u].mu = FromSnapshot(team[m], streak.kind).mu
                    /\ db[u].sigma = FromSnapshot(team[m], streak.kind).sigma
                    /\ db[u].mu = streak.first[u].mu
                    /\ db[u].sigma = streak.first[u].sigma
                    /\ db[u].games_played
                           = streak.base[u].games_played + streak.k + between
                    /\ db[u].wins = streak.base[u].wins + between
                           + (IF streak.kind = "win" THEN streak.k ELSE 0)
                    /\ db[u].losses = streak.base[u].losses
                           + (IF streak.kind = "loss" THEN streak.k ELSE 0)
                    /\ db[u].draws = streak.base[u].draws
                           + (IF streak.kind = "draw" THEN streak.k ELSE 0)

\* !ts teamwin has run twice on one team, with a !ts win for one of its
\* members in between that had changed the member's rating
C29_Witness ==
    /\ Repeated
    /\ streak.k = 2
    /\ streak.kind = "win"
    /\ \E m \in 1..Len(current_teams[streak.guild][streak.team_number]) :
           LET u == current_teams[streak.guild][streak.team_number][m].user_id
           IN  /\ streak.extra[u] = 1
               /\ before_db[u].mu /= streak.first[u].mu
               /\ db[u].mu = streak.first[u].mu
               /\ db[u].games_played = streak.base[u].games_played + 3

\* The attempt of generate_optimal_teams run step by step ends with the
\* partition, the flag and the pass counter of the attempt taken whole.
SearchAgrees ==
    (pc = "searched" /\ entry.fn = "generate_optimal_teams") =>
        /\ SamePartition(teams, OptimalAttempt(player_list, num_teams))
        /\ improved = OptimalAttemptRun(player_list, num_teams).improved
        /\ iterations = OptimalAttemptRun(player_list, num_teams).iterations

====
